---- MODULE Spec2Model ----
(***************************************************************************)
(* A model of the archive back ends of zen-fs/archives: the ZIP file       *)
(* system (ZipFS, its mount in ready(), stat/readdir/read), the stream     *)
(* byte source (fromStream) and the ISO 9660 file system (IsoFS).          *)
(*                                                                         *)
(* Paths are sequences of path components: "/" is << >>, "/a/b" is         *)
(* <<"a", "b">>.  Ordered JavaScript Maps and Sets are sequences in        *)
(* insertion order.                                                        *)
(***************************************************************************)
EXTENDS Naturals, Integers, Sequences, FiniteSets, TLC

VARIABLES
    data,         \* ZipFS.data: the byte source holding the archive
    lazy,         \* ZipFS.lazy
    delivered,    \* the byte source can serve every range of the archive
    files,        \* ZipFS.files: ordered map, path -> index of the FileEntry
    directories,  \* ZipFS.directories: ordered map, path -> ordered set of names
    _ready,       \* ZipFS._ready
    eocd,         \* ZipFS.eocd
    contents,     \* FileEntry.contents, per central-directory entry
    loading,      \* loadContents() calls in flight that nobody awaits, per entry
    pc,           \* position of every ready() call
    ptr,          \* local ptr of every ready() call
    cdEnd,        \* local cdEnd of every ready() call
    rd,           \* the async read() suspended on loadContents(), if any
    last,         \* what the last stat/readdir/read call returned or threw
    size,         \* fromStream: the size argument
    streamData,   \* fromStream: the buffer "data" the chunks are copied into
    bytesRead,    \* fromStream: bytesRead
    pending,      \* fromStream: the ordered set "pending"
    gets,         \* fromStream: every get() call of the scenario
    image,        \* IsoFS: the directory records of the image, by path
    isoLast,      \* IsoFS: what the last stat/readdir/read call returned or threw
    caseFold,     \* the caseFold option the IsoFS was mounted with
    isoAsked,     \* the path the caller gave to the last stat/readdir/read call
    arg,          \* the argument of a function called on its own
    ret           \* what that call returned or threw

zipVars == <<data, lazy, delivered, files, directories, _ready, eocd, contents,
             loading, pc, ptr, cdEnd, rd, last>>

streamVars == <<size, streamData, bytesRead, pending, gets>>

isoVars == <<image, isoLast, caseFold, isoAsked>>

callVars == <<arg, ret>>

vars == <<zipVars, streamVars, isoVars, callVars>>

----------------------------------------------------------------------------
(* Bounds *)

MaxDepth == 3      \* most components in the name of an archive entry
MaxEntries == 2    \* most central-directory entries of an archive
MaxLen == 1        \* most bytes of contents of an entry
MaxLoads == 1      \* most unawaited loadContents() calls in flight per entry
MaxSize == 3       \* most bytes of a streamed source

Names == {"a", "b"}
Callers == {1, 2}

----------------------------------------------------------------------------
(* Paths, ordered maps and ordered sets *)

Min(a, b) == IF a < b THEN a ELSE b
Max(a, b) == IF a > b THEN a ELSE b

Front(s) == SubSeq(s, 1, Len(s) - 1)

Range(s) == {s[i] : i \in 1..Len(s)}

CompSeqs(n) == UNION {[1..k -> Names] : k \in 1..n}

\* parse() of @zenfs/core/path.js on an absolute, normalised path.
parse(path) ==
    IF path = <<>> THEN [dir |-> <<>>, base |-> ""]
    ELSE [dir |-> Front(path), base |-> path[Len(path)]]

MapHas(m, k) == \E i \in 1..Len(m) : m[i].k = k

MapGet(m, k) == m[CHOOSE i \in 1..Len(m) : m[i].k = k].v

MapSet(m, k, v) ==
    IF MapHas(m, k)
    THEN [i \in 1..Len(m) |-> IF m[i].k = k THEN [k |-> k, v |-> v] ELSE m[i]]
    ELSE Append(m, [k |-> k, v |-> v])

MapKeys(m) == [i \in 1..Len(m) |-> m[i].k]

SetAdd(s, x) == IF x \in Range(s) THEN s ELSE Append(s, x)

\* Uint8Array.subarray(begin, end): both ends clamped to the array.
SubArray(s, begin, end) ==
    LET b == Min(begin, Len(s))
        e == Min(end, Len(s))
    IN  IF e <= b THEN <<>> ELSE SubSeq(s, b + 1, e)

----------------------------------------------------------------------------
(* The archive behind the byte source *)

sizeof_FileEntry == 46
sizeof_LocalFileHeader == 30
\* The all-ones value of the 32-bit offset field (0xffffffff in the code),
\* held here as the largest integer TLC represents.
ZIP64_OFFSET == 2147483647
S_IFDIR == 16384
S_IFREG == 32768
MODE_RX == 365      \* 0o555
DIR_SIZE == 4096

Kinds == {"buffer", "stream", "custom"}

\* Contents of n bytes: byte i holds i, so that a copied range shows where it
\* was taken from.
Bytes(n) == [i \in 1..n |-> i]

STORE == 0
DEFLATE == 8

\* The keys of decompressionMethods.
Registered == {STORE, DEFLATE}

\* A compression method that no decompressor is registered for.
UnknownMethod == 99

FileEntry_signature == 33639248         \* 0x02014b50
LocalFileHeader_signature == 67324752   \* 0x04034b50

\* A central-directory entry with its local file: the stored name is
\* (abs ? "/" : "") + comps joined by "/" + (slash ? "/" : ""); attr is bit
\* 0x10 of externalAttributes; stored holds the bytes after the local header;
\* signature and localSignature are the first four bytes of the entry and of
\* its local file header.
NewEntry(abs, comps, slash, attr, stored) ==
    [abs |-> abs, comps |-> comps, slash |-> slash, attr |-> attr,
     stored |-> stored,
     signature |-> FileEntry_signature,
     localSignature |-> LocalFileHeader_signature,
     compressionMethod |-> STORE,
     nameLength |-> (IF abs THEN 1 ELSE 0) + 2 * Len(comps) - 1
                    + (IF slash THEN 1 ELSE 0),
     compressedSize |-> Len(stored),
     uncompressedSize |-> Len(stored)]

FileEntries(depth) ==
    {NewEntry(FALSE, c, FALSE, FALSE, Bytes(n)) :
        c \in CompSeqs(depth), n \in 0..MaxLen}

DirectoryEntries(depth) ==
    {NewEntry(FALSE, c, s, ~s, <<>>) : c \in CompSeqs(depth), s \in BOOLEAN}

AbsoluteEntries == {NewEntry(TRUE, <<"a">>, FALSE, FALSE, <<>>)}

SeqsUpTo(S, n) == UNION {[1..k -> S] : k \in 0..n}

\* FileEntry.size
EntrySize(e) == sizeof_FileEntry + e.nameLength

\* Footprint of the local header and the stored bytes of an entry.
LocalSize(e) == sizeof_LocalFileHeader + e.nameLength + e.compressedSize

RECURSIVE SumOver(_, _, _)
SumOver(F(_), s, i) == IF i > Len(s) THEN 0 ELSE F(s[i]) + SumOver(F, s, i + 1)

\* The end-of-central-directory record of a well-formed archive: the local
\* files come first, the central directory follows them.
HeaderOf(cd) ==
    [found |-> TRUE, disk |-> 0, entriesDisk |-> 0,
     offset |-> SumOver(LocalSize, cd, 1), size |-> SumOver(EntrySize, cd, 1)]

NoHeader == [found |-> FALSE, disk |-> 0, entriesDisk |-> 0, offset |-> 0, size |-> 0]

Archive(kind, cd, header) == [kind |-> kind, cd |-> cd, eocd |-> header]

\* Archives of the directory-structure scenarios: one entry with a name of up
\* to MaxDepth components, or up to MaxEntries entries with shorter names.
TreeArchives ==
    {Archive("buffer", cd, HeaderOf(cd)) :
        cd \in [1..1 -> FileEntries(MaxDepth) \cup DirectoryEntries(MaxDepth)]
            \cup SeqsUpTo(FileEntries(MaxDepth - 1)
                              \cup DirectoryEntries(MaxDepth - 1), MaxEntries)}

\* Entries whose own signature, or whose local file header's, is overwritten.
DamagedEntries ==
    {[NewEntry(FALSE, <<"a">>, FALSE, FALSE, Bytes(MaxLen)) EXCEPT !.signature = 0],
     [NewEntry(FALSE, <<"a">>, FALSE, FALSE, Bytes(MaxLen)) EXCEPT !.localSignature = 0]}

\* The file "b", compressed with a method without decompressor.
UnknownEntry ==
    [NewEntry(FALSE, <<"b">>, FALSE, FALSE, Bytes(MaxLen)) EXCEPT
        !.compressionMethod = UnknownMethod]

\* Archives of the mount scenarios: small trees, a rejected (absolute) name,
\* archives with a damaged signature, spanned archives, ZIP64 archives, an
\* archive without end-of-central-directory record.
MountEntries ==
    {NewEntry(FALSE, <<"a">>, FALSE, FALSE, Bytes(MaxLen)),
     NewEntry(FALSE, <<"b">>, TRUE, FALSE, <<>>)} \cup AbsoluteEntries

MountArchives ==
    UNION {
        {Archive(k, cd, HeaderOf(cd)) : cd \in SeqsUpTo(MountEntries, MaxEntries)}
        \cup {Archive(k, <<>>, [HeaderOf(<<>>) EXCEPT !.entriesDisk = 1]),
              Archive(k, <<>>, NoHeader)}
        \cup {Archive(k, <<e>>, HeaderOf(<<e>>)) : e \in DamagedEntries}
        \cup {Archive(k, cd, HeaderOf(cd)) :
                  cd \in {<<UnknownEntry>>,
                          <<NewEntry(FALSE, <<"a">>, FALSE, FALSE, Bytes(MaxLen)),
                            UnknownEntry>>}}
        \cup {Archive(k, cd, [HeaderOf(cd) EXCEPT !.entriesDisk = 1]) :
                  cd \in {<<NewEntry(FALSE, <<"a">>, FALSE, FALSE, Bytes(MaxLen))>>}}
        \cup {Archive(k, cd, [HeaderOf(cd) EXCEPT !.offset = ZIP64_OFFSET]) :
                  cd \in {<<>>, <<NewEntry(FALSE, <<"a">>, FALSE, FALSE, Bytes(MaxLen))>>}}
        : k \in Kinds}

----------------------------------------------------------------------------
(* zip.ts: records read through the byte source *)

\* computeEOCD(source): the record found by the backward scan, if any.  The
\* archives are shorter than the 0xffff bytes of the scan: without a record
\* the scan leaves the archive at offset -1, where the get of an ArrayBuffer
\* throws a RangeError; on other sources it goes on to the end of the loop.
computeEOCD(source) ==
    IF source.eocd.found THEN [err |-> "", header |-> source.eocd]
    ELSE IF source.kind = "buffer" THEN [err |-> "RangeError", header |-> NoHeader]
    ELSE [err |-> "EINVAL", header |-> NoHeader]

\* Offset of the i-th central-directory entry of the archive.
EntryOffset(source, i) ==
    source.eocd.offset + SumOver(EntrySize, SubSeq(source.cd, 1, i - 1), 1)

\* FileEntry.from(source, offset): the entry that starts at the offset.
FileEntryFrom(source, offset) ==
    CHOOSE i \in 1..Len(source.cd) : EntryOffset(source, i) = offset

\* decompressionMethods[STORE]: the stored bytes themselves.
decompress(stored, compressedSize, uncompressedSize) == stored

NoContents == [loaded |-> FALSE, bytes |-> <<>>]

\* A variant that takes every method for a registered one.
AnyMethod(method) == TRUE

\* typeof decompressionMethods[compressionMethod] == 'function'
HasDecompressor(method) == method \in Registered

\* FileEntry.loadContents(): the error it throws ("": none), the method the
\* message of the error names, and the value it leaves in FileEntry.contents.
loadContents(source, i) ==
    LET e == source.cd[i]
    IN  IF ~HasDecompressor(e.compressionMethod)
        THEN [err |-> "EINVAL", mname |-> <<e.compressionMethod>>,
              contents |-> NoContents]
        ELSE [err |-> "", mname |-> <<>>,
              contents |->
                  [loaded |-> TRUE,
                   bytes |-> decompress(e.stored, e.compressedSize,
                                        e.uncompressedSize)]]

\* FileEntry.isDirectory
isDirectory(e) == e.attr \/ e.slash

\* FileEntry.check() and LocalFileHeader.check(): whether they return
\* without throwing EINVAL.  Neither FileEntry.from, loadContents nor ready()
\* calls them.
FileEntry_check(e) == e.signature = FileEntry_signature

LocalFileHeader_check(e) == e.localSignature = LocalFileHeader_signature

----------------------------------------------------------------------------
(* ZipFS.ready(): the directory index *)

\* "Parse directory entries": the loop over files.keys(), from index i on.
RECURSIVE ParseDirectoryEntries(_, _, _)
ParseDirectoryEntries(keys, i, dirs) ==
    IF i > Len(keys) THEN dirs
    ELSE LET p == parse(keys[i])
             d == IF MapHas(dirs, p.dir) THEN dirs ELSE MapSet(dirs, p.dir, <<>>)
         IN  ParseDirectoryEntries(keys, i + 1,
                 MapSet(d, p.dir, SetAdd(MapGet(d, p.dir), p.base)))

\* The second loop over the keys the map held when the loop began only.
RECURSIVE AddSubdirectoriesUpTo(_, _, _)
AddSubdirectoriesUpTo(dirs, i, n) ==
    IF i > n THEN dirs
    ELSE LET p == parse(dirs[i].k)
             d == IF MapHas(dirs, p.dir) THEN dirs ELSE MapSet(dirs, p.dir, <<>>)
         IN  IF p.base = "" THEN AddSubdirectoriesUpTo(dirs, i + 1, n)
             ELSE AddSubdirectoriesUpTo(
                      MapSet(d, p.dir, SetAdd(MapGet(d, p.dir), p.base)), i + 1, n)

AddSubdirectoriesOfSnapshot(dirs, i) == AddSubdirectoriesUpTo(dirs, i, Len(dirs))

\* "Add subdirectories to their parent's entries": the loop over
\* directories.keys(), from index i on.  A Map iterator also visits the keys
\* added while it runs, so the loop runs to the end of the growing map.
RECURSIVE AddSubdirectories(_, _)
AddSubdirectories(dirs, i) ==
    IF i > Len(dirs) THEN dirs
    ELSE LET p == parse(dirs[i].k)
             d == IF MapHas(dirs, p.dir) THEN dirs ELSE MapSet(dirs, p.dir, <<>>)
         IN  IF p.base = "" THEN AddSubdirectories(dirs, i + 1)
             ELSE AddSubdirectories(
                      MapSet(d, p.dir, SetAdd(MapGet(d, p.dir), p.base)), i + 1)

BuildDirectories(fs, dirs) ==
    AddSubdirectories(ParseDirectoryEntries(MapKeys(fs), 1, dirs), 1)

----------------------------------------------------------------------------
(* ZipFS: construction *)

NoRead == [active |-> FALSE, path |-> <<>>, offset |-> 0, end |-> 0]

\* The caller's buffer before a read: MaxLen zero bytes.
EmptyBuffer == [i \in 1..MaxLen |-> 0]

NoInode == [mode |-> 0, size |-> 0]

Result(op, path, err) ==
    [op |-> op, path |-> path, err |-> err, inode |-> NoInode, names |-> <<>>,
     offset |-> 0, end |-> 0, buffer |-> EmptyBuffer, mname |-> <<>>]

\* The state after new ZipFS(label, data, lazy), before any ready() call.
\* calls is the set of ready() calls the scenario makes.
Construct(source, isLazy, calls) ==
    /\ data = source
    /\ lazy = isLazy
    /\ delivered = (source.kind # "stream")
    /\ files = <<>>
    /\ directories = <<>>
    /\ _ready = FALSE
    /\ eocd = NoHeader
    /\ contents = [i \in 1..Len(source.cd) |-> NoContents]
    /\ loading = [i \in 1..Len(source.cd) |-> 0]
    /\ pc = [c \in Callers |-> IF c \in calls THEN "idle" ELSE "absent"]
    /\ ptr = [c \in Callers |-> 0]
    /\ cdEnd = [c \in Callers |-> 0]
    /\ rd = NoRead
    /\ last = Result("none", <<>>, "")

\* No ZipFS in the scenario.
NoZip == Construct(Archive("buffer", <<>>, NoHeader), FALSE, {})

GetIds == {1, 2}

NoGet == [state |-> "idle", offset |-> 0, length |-> 0, waited |-> FALSE,
          view |-> <<>>]

\* The state after fromStream(stream, n), before the first chunk arrives.
FromStream(n) ==
    /\ size = n
    /\ streamData = [i \in 1..n |-> 0]
    /\ bytesRead = 0
    /\ pending = <<>>
    /\ gets = [g \in GetIds |-> NoGet]

\* No stream source in the scenario.
NoStream == FromStream(0)

\* A symbolic-link target: its components, and whether it starts at the root.
LinkPath(abs, comps) == [abs |-> abs, comps |-> comps]

NoLink == LinkPath(FALSE, <<>>)

SECTOR == 2048

\* The mode of a record without Rock Ridge PX entry.
NoPX == -1

\* Directory records: a regular file of n bytes, a directory of one sector,
\* a Rock Ridge symbolic link (an SL entry, no data of its own), no record.
\* px is the mode of the record's PX entry.
FileRecord(n) ==
    [kind |-> "file", dataLength |-> n, file |-> Bytes(n), symlinkPath |-> NoLink,
     px |-> NoPX]

DirRecord ==
    [kind |-> "dir", dataLength |-> SECTOR, file |-> <<>>, symlinkPath |-> NoLink,
     px |-> NoPX]

SymlinkRecord(target) ==
    [kind |-> "symlink", dataLength |-> 0, file |-> <<>>, symlinkPath |-> target,
     px |-> NoPX]

NoRecord ==
    [kind |-> "none", dataLength |-> 0, file |-> <<>>, symlinkPath |-> NoLink,
     px |-> NoPX]

IsoResult(op, path, err) ==
    [op |-> op, path |-> path, err |-> err, defined |-> FALSE, inode |-> NoInode,
     names |-> <<>>, offset |-> 0, end |-> 0, bytes |-> <<>>]

\* The state after new IsoFS(data) for an image holding the given records.
Mounted(records, fold) ==
    /\ image = records
    /\ isoLast = IsoResult("none", <<>>, "")
    /\ caseFold = fold
    /\ isoAsked = <<>>

\* No IsoFS in the scenario.
NoIso == Mounted([p \in {<<>>} |-> DirRecord], "none")

\* A function about to be called with an argument, and no function called.
NotCalled == [called |-> FALSE]

Calling(x) == arg = x /\ ret = NotCalled

NoCall == Calling(<<>>)

Init ==
    /\ NoCall
    /\ \/ \E source \in TreeArchives : Construct(source, FALSE, {1})
       \/ \E source \in MountArchives, isLazy \in BOOLEAN :
              Construct(source, isLazy, Callers)
    /\ NoStream
    /\ NoIso

----------------------------------------------------------------------------
(* ZipFS.ready() *)

\* The stream behind a stream-backed source delivers the rest of the archive.
\* (computeEOCD first asks for the last 22 bytes: no get of the mount resolves
\* before the whole archive has arrived.)
StreamDeliver ==
    /\ data.kind = "stream"
    /\ ~delivered
    /\ delivered' = TRUE
    /\ UNCHANGED <<streamVars, isoVars, callVars, data, lazy, files, directories, _ready, eocd, contents,
                   loading, pc, ptr, cdEnd, rd, last>>

\* A call of ready() runs up to `await super.ready()`.
ReadyCall(c) ==
    /\ pc[c] = "idle"
    /\ pc' = [pc EXCEPT ![c] = "super"]
    /\ UNCHANGED <<streamVars, isoVars, callVars, data, lazy, delivered, files, directories, _ready, eocd,
                   contents, loading, ptr, cdEnd, rd, last>>

\* Whether a ready() call returns at once (line 78).
AlreadyReady == _ready

\* From `await super.ready()` to `await computeEOCD(this.data)`.
ReadyEnter(c) ==
    /\ pc[c] = "super"
    /\ IF AlreadyReady
       THEN /\ pc' = [pc EXCEPT ![c] = "skipped"]
            /\ UNCHANGED _ready
       ELSE /\ _ready' = TRUE
            /\ pc' = [pc EXCEPT ![c] = "eocd"]
    /\ UNCHANGED <<streamVars, isoVars, callVars, data, lazy, delivered, files, directories, eocd, contents,
                   loading, ptr, cdEnd, rd, last>>

\* The end of ready(): both directory loops, then the promise resolves.
ReadyFinish(c, fs) ==
    /\ directories' = BuildDirectories(fs, directories)
    /\ pc' = [pc EXCEPT ![c] = "done"]

\* computeEOCD has resolved: the checks of the record, up to the first
\* `await FileEntry.from(...)` of the walk.
\* A variant that takes no archive for a spanned one.
NeverSpanned(header) == FALSE

\* this.eocd.disk != this.eocd.entriesDisk
Spanned(header) == header.disk # header.entriesDisk

ReadyEOCD(c) ==
    /\ pc[c] = "eocd"
    /\ delivered
    /\ LET r == computeEOCD(data)
           end == r.header.offset + r.header.size
       IN  IF r.err # ""
           THEN /\ pc' = [pc EXCEPT ![c] = r.err]
                /\ UNCHANGED <<eocd, ptr, cdEnd, directories>>
           ELSE /\ eocd' = r.header
                /\ IF Spanned(r.header)
                   THEN /\ pc' = [pc EXCEPT ![c] = "EINVAL"]
                        /\ UNCHANGED <<ptr, cdEnd, directories>>
                   ELSE /\ ptr' = [ptr EXCEPT ![c] = r.header.offset]
                        /\ IF r.header.offset = ZIP64_OFFSET
                           THEN /\ pc' = [pc EXCEPT ![c] = "EINVAL"]
                                /\ UNCHANGED <<cdEnd, directories>>
                           ELSE /\ cdEnd' = [cdEnd EXCEPT ![c] = end]
                                /\ IF r.header.offset < end
                                   THEN /\ pc' = [pc EXCEPT ![c] = "entry"]
                                        /\ UNCHANGED directories
                                   ELSE ReadyFinish(c, files)
    /\ UNCHANGED <<streamVars, isoVars, callVars, data, lazy, delivered, files, _ready, contents, loading, rd,
                   last>>

\* '/' + name, name being cd.name without its trailing '/' (lines 104-105).
FileKey(e) == e.comps

\* A walk that loads no contents.
WalkLoadsNothing == FALSE

\* Whether the walk awaits cd.loadContents() for every entry (line 96).
WalkLoadsContents == ~lazy

\* Lines 100-106 for the entry cd, then the next turn of the walk or its end.
WalkStore(c, cd) ==
    LET e == data.cd[cd]
        fs == MapSet(files, FileKey(e), cd)
        next == ptr[c] + EntrySize(e)
    IN  IF e.abs
        THEN /\ pc' = [pc EXCEPT ![c] = "EPERM"]
             /\ UNCHANGED <<files, ptr, directories>>
        ELSE /\ files' = fs
             /\ ptr' = [ptr EXCEPT ![c] = next]
             /\ IF next < cdEnd[c]
                THEN /\ pc' = [pc EXCEPT ![c] = "entry"]
                     /\ UNCHANGED directories
                ELSE ReadyFinish(c, fs)

\* `await FileEntry.from(this.data, ptr)` has resolved.
ReadyEntry(c) ==
    /\ pc[c] = "entry"
    /\ delivered
    /\ IF WalkLoadsContents
       THEN /\ pc' = [pc EXCEPT ![c] = "load"]
            /\ UNCHANGED <<files, ptr, directories>>
       ELSE WalkStore(c, FileEntryFrom(data, ptr[c]))
    /\ UNCHANGED <<streamVars, isoVars, callVars, data, lazy, delivered, _ready, eocd, contents, loading,
                   cdEnd, rd, last>>

\* `await cd.loadContents()` of the walk has resolved.
ReadyLoad(c) ==
    /\ pc[c] = "load"
    /\ delivered
    /\ LET cd == FileEntryFrom(data, ptr[c])
           loaded == loadContents(data, cd)
       IN  IF loaded.err # ""
           THEN /\ pc' = [pc EXCEPT ![c] = loaded.err]
                /\ UNCHANGED <<contents, files, ptr, directories>>
           ELSE /\ contents' = [contents EXCEPT ![cd] = loaded.contents]
                /\ WalkStore(c, cd)
    /\ UNCHANGED <<streamVars, isoVars, callVars, data, lazy, delivered, _ready, eocd, loading, cdEnd, rd,
                   last>>

\* The promise of a ready() call has resolved.
Resolved(c) == pc[c] \in {"done", "skipped"}

----------------------------------------------------------------------------
(* ZipFS: stat, readdir, read *)

\* The file system is in use: a ready() call of the host has resolved.
InUse == \E c \in Callers : Resolved(c)

IsPrefix(p, q) == Len(p) <= Len(q) /\ SubSeq(q, 1, Len(p)) = p

\* The paths the host asks for: the root, every entry of the archive, every
\* directory above one, and "/b".
QueryPaths ==
    {<<>>, <<"b">>}
        \cup UNION {{SubSeq(data.cd[i].comps, 1, k) : k \in 1..Len(data.cd[i].comps)} :
                        i \in 1..Len(data.cd)}

HasFlag(mode, flag) == (mode \div flag) % 2 = 1

\* ZipFS.statSync(path)
statSync(path) ==
    IF MapHas(directories, path)
    THEN [err |-> "", inode |-> [mode |-> MODE_RX + S_IFDIR, size |-> DIR_SIZE]]
    ELSE IF ~MapHas(files, path)
    THEN [err |-> "ENOENT", inode |-> NoInode]
    ELSE LET entry == data.cd[MapGet(files, path)]
         IN  [err |-> "",
              inode |-> [mode |-> MODE_RX + (IF isDirectory(entry) THEN S_IFDIR
                                                                   ELSE S_IFREG),
                         size |-> entry.uncompressedSize]]

\* ZipFS.readdirSync(path)
readdirSync(path) ==
    LET st == statSync(path)
    IN  IF st.err # "" THEN [err |-> st.err, names |-> <<>>]
        ELSE IF ~HasFlag(st.inode.mode, S_IFDIR)
        THEN [err |-> "ENOTDIR", names |-> <<>>]
        ELSE IF ~MapHas(directories, path)
        THEN [err |-> "ENODATA", names |-> <<>>]
        ELSE [err |-> "", names |-> MapGet(directories, path)]

\* buffer.set(source): the source goes to the start of the buffer.
BufferSet(buffer, source) ==
    [i \in 1..Len(buffer) |-> IF i <= Len(source) THEN source[i] ELSE buffer[i]]

\* The check of read and readSync before they look at the contents.
ReadCheck(path) ==
    IF MapHas(directories, path) THEN "EISDIR"
    ELSE IF ~MapHas(files, path) THEN "ENOENT"
    ELSE ""

\* A variant that writes to the buffer before it knows whether the read
\* fails.
ReadResultWritten(op, path, offset, end, err, buffer) ==
    [Result(op, path, err) EXCEPT
        !.offset = offset, !.end = end,
        !.buffer = IF err # "" THEN BufferSet(buffer, <<end>>) ELSE buffer]

ReadResult(op, path, offset, end, err, buffer) ==
    [Result(op, path, err) EXCEPT !.offset = offset, !.end = end,
                                  !.buffer = buffer]

\* A copy that always starts at the first byte of the contents.
CopyContentsFromStart(file, offset, end) ==
    BufferSet(EmptyBuffer, SubArray(contents[file].bytes, 0, end))

\* buffer.set(file.contents.subarray(offset, end)) on an empty buffer.
CopyContents(file, offset, end) ==
    BufferSet(EmptyBuffer, SubArray(contents[file].bytes, offset, end))

ReadRanges == {<<0, MaxLen>>, <<1, MaxLen>>, <<0, 1>>}

StatSync(path) ==
    /\ InUse
    /\ LET st == statSync(path)
       IN  last' = [Result("stat", path, st.err) EXCEPT !.inode = st.inode]
    /\ UNCHANGED <<streamVars, isoVars, callVars, data, lazy, delivered, files, directories, _ready, eocd,
                   contents, loading, pc, ptr, cdEnd, rd>>

ReaddirSync(path) ==
    /\ InUse
    /\ LET r == readdirSync(path)
       IN  last' = [Result("readdir", path, r.err) EXCEPT !.names = r.names]
    /\ UNCHANGED <<streamVars, isoVars, callVars, data, lazy, delivered, files, directories, _ready, eocd,
                   contents, loading, pc, ptr, cdEnd, rd>>

\* ZipFS.readSync(path, buffer, offset, end)
ReadSync(path, offset, end) ==
    /\ InUse
    /\ LET err == ReadCheck(path)
           file == MapGet(files, path)
       IN  IF err # ""
           THEN /\ last' = ReadResult("readSync", path, offset, end, err, EmptyBuffer)
                /\ UNCHANGED loading
           ELSE IF ~contents[file].loaded
           THEN /\ loading[file] < MaxLoads
                /\ loading' = [loading EXCEPT ![file] = @ + 1]
                /\ last' = ReadResult("readSync", path, offset, end, "EAGAIN",
                                      EmptyBuffer)
           ELSE /\ last' = ReadResult("readSync", path, offset, end, "",
                                      CopyContents(file, offset, end))
                /\ UNCHANGED loading
    /\ UNCHANGED <<streamVars, isoVars, callVars, data, lazy, delivered, files, directories, _ready, eocd,
                   contents, pc, ptr, cdEnd, rd>>

\* A loadContents() call started by readSync completes.
LoadDone(file) ==
    /\ loading[file] > 0
    /\ delivered
    /\ loading' = [loading EXCEPT ![file] = @ - 1]
    /\ LET loaded == loadContents(data, file)
       IN  contents' = IF loaded.err # "" THEN contents
                       ELSE [contents EXCEPT ![file] = loaded.contents]
    /\ UNCHANGED <<streamVars, isoVars, callVars, data, lazy, delivered, files, directories, _ready, eocd, pc,
                   ptr, cdEnd, rd, last>>

\* ZipFS.read(path, buffer, offset, end), up to its end or to
\* `await file.loadContents()`.
Read(path, offset, end) ==
    /\ InUse
    /\ ~rd.active
    /\ LET err == ReadCheck(path)
           file == MapGet(files, path)
       IN  IF err # ""
           THEN /\ last' = ReadResult("read", path, offset, end, err, EmptyBuffer)
                /\ UNCHANGED rd
           ELSE IF ~contents[file].loaded
           THEN /\ rd' = [active |-> TRUE, path |-> path, offset |-> offset,
                          end |-> end]
                /\ UNCHANGED last
           ELSE /\ last' = ReadResult("read", path, offset, end, "",
                                      CopyContents(file, offset, end))
                /\ UNCHANGED rd
    /\ UNCHANGED <<streamVars, isoVars, callVars, data, lazy, delivered, files, directories, _ready, eocd,
                   contents, loading, pc, ptr, cdEnd>>

\* `await file.loadContents()` of a read has resolved: the copy.
ReadResume ==
    /\ rd.active
    /\ delivered
    /\ LET file == MapGet(files, rd.path)
           loaded == loadContents(data, file)
       IN  IF loaded.err # ""
           THEN /\ UNCHANGED contents
                /\ last' = [ReadResult("read", rd.path, rd.offset, rd.end,
                                       loaded.err, EmptyBuffer)
                                EXCEPT !.mname = loaded.mname]
           ELSE /\ contents' = [contents EXCEPT ![file] = loaded.contents]
                /\ last' = ReadResult("read", rd.path, rd.offset, rd.end, "",
                              BufferSet(EmptyBuffer,
                                        SubArray(loaded.contents.bytes,
                                                 rd.offset, rd.end)))
    /\ rd' = NoRead
    /\ UNCHANGED <<streamVars, isoVars, callVars, data, lazy, delivered, files, directories, _ready, eocd,
                   loading, pc, ptr, cdEnd>>

Next ==
    \/ StreamDeliver
    \/ \E c \in Callers : ReadyCall(c)
    \/ \E c \in Callers : ReadyEnter(c)
    \/ \E c \in Callers : ReadyEOCD(c)
    \/ \E c \in Callers : ReadyEntry(c)
    \/ \E c \in Callers : ReadyLoad(c)
    \/ \E path \in QueryPaths : StatSync(path)
    \/ \E path \in QueryPaths : ReaddirSync(path)
    \/ \E path \in QueryPaths, r \in ReadRanges : ReadSync(path, r[1], r[2])
    \/ \E path \in QueryPaths, r \in ReadRanges : Read(path, r[1], r[2])
    \/ \E file \in DOMAIN loading : LoadDone(file)
    \/ ReadResume

Spec == Init /\ [][Next]_vars

----------------------------------------------------------------------------
(* fromStream(stream, size): the stream delivers bytes 1, 2, ..., size *)

\* One more byte than the source holds: a get() may ask past the end.
GetRanges ==
    {<<o, l>> \in (0..MaxSize) \X (0..(MaxSize + 1)) : o + l <= MaxSize + 1}

\* A watermark strictly past the end of the range.
CoveredBeyond(read, offset, length) == read > offset + length

\* bytesRead >= offset + length, the test of get() and of the loop of __read.
Covered(read, offset, length) == read >= offset + length

\* The first pending get the watermark covers is resolved and deleted.
RECURSIVE ResolveFirstPending(_, _, _)
ResolveFirstPending(waiting, i, read) ==
    IF i > Len(waiting)
    THEN [waiting |-> waiting, resolved |-> {}]
    ELSE IF Covered(read, waiting[i].offset, waiting[i].length)
         THEN [waiting |-> SubSeq(waiting, 1, i - 1)
                               \o SubSeq(waiting, i + 1, Len(waiting)),
               resolved |-> {waiting[i].id}]
         ELSE ResolveFirstPending(waiting, i + 1, read)

\* for (const promise of pending): resolve and delete every pending get the
\* watermark covers.  Deleting from a Set while iterating it skips nothing.
RECURSIVE ResolvePending(_, _, _)
ResolvePending(waiting, i, read) ==
    IF i > Len(waiting)
    THEN [waiting |-> waiting, resolved |-> {}]
    ELSE IF Covered(read, waiting[i].offset, waiting[i].length)
         THEN LET rest == ResolvePending(
                              SubSeq(waiting, 1, i - 1)
                                  \o SubSeq(waiting, i + 1, Len(waiting)),
                              i, read)
              IN  [waiting |-> rest.waiting,
                   resolved |-> rest.resolved \cup {waiting[i].id}]
         ELSE ResolvePending(waiting, i + 1, read)

\* data.subarray(offset, offset + length) as it reads now: a view is a window
\* on the buffer, not a copy.
View(offset, length) == SubArray(streamData, offset, offset + length)

\* One turn of the loop of __read: a chunk of n bytes arrives.
ReadChunk(n) ==
    /\ size > 0
    /\ bytesRead + n <= size
    /\ LET read == bytesRead + n
           woken == ResolvePending(pending, 1, read)
       IN  /\ streamData' = [i \in 1..size |->
                                IF bytesRead < i /\ i <= read THEN i
                                ELSE streamData[i]]
           /\ bytesRead' = read
           /\ pending' = woken.waiting
           /\ gets' = [g \in GetIds |->
                          IF g \in woken.resolved
                          THEN [gets[g] EXCEPT !.state = "woken"]
                          ELSE gets[g]]
    /\ UNCHANGED <<zipVars, isoVars, callVars, size>>

\* get(offset, length) up to its await: it returns the view at once, or joins
\* the pending set.
Get(g, offset, length) ==
    /\ size > 0
    /\ gets[g].state = "idle"
    /\ IF Covered(bytesRead, offset, length)
       THEN /\ gets' = [gets EXCEPT ![g] =
                           [state |-> "returned", offset |-> offset,
                            length |-> length, waited |-> FALSE,
                            view |-> View(offset, length)]]
            /\ UNCHANGED pending
       ELSE /\ gets' = [gets EXCEPT ![g] =
                           [state |-> "pending", offset |-> offset,
                            length |-> length, waited |-> TRUE, view |-> <<>>]]
            /\ pending' = Append(pending,
                                 [id |-> g, offset |-> offset, length |-> length])
    /\ UNCHANGED <<zipVars, isoVars, callVars, size, streamData, bytesRead>>

\* get() after its await: the promise was resolved, it returns the view.
GetReturn(g) ==
    /\ gets[g].state = "woken"
    /\ gets' = [gets EXCEPT ![g].state = "returned",
                            ![g].view = View(gets[g].offset, gets[g].length)]
    /\ UNCHANGED <<zipVars, isoVars, callVars, size, streamData, bytesRead, pending>>

StreamInit ==
    /\ NoCall
    /\ NoZip
    /\ \E n \in 1..MaxSize : FromStream(n)
    /\ NoIso

StreamNext ==
    \/ \E n \in 1..MaxSize : ReadChunk(n)
    \/ \E g \in GetIds, r \in GetRanges : Get(g, r[1], r[2])
    \/ \E g \in GetIds : GetReturn(g)

StreamSpec == StreamInit /\ [][StreamNext]_vars

\* The stream delivers size bytes in total, and a resolved promise runs its
\* continuation.
FairStreamSpec ==
    /\ StreamInit
    /\ [][StreamNext]_vars
    /\ WF_vars(\E n \in 1..MaxSize : ReadChunk(n))
    /\ \A g \in GetIds : WF_vars(GetReturn(g))

----------------------------------------------------------------------------
(* IsoFS *)

LinkPaths ==
    {LinkPath(TRUE, <<"a">>), LinkPath(TRUE, <<"b">>), LinkPath(TRUE, <<"b", "a">>),
     LinkPath(FALSE, <<"a">>), LinkPath(FALSE, <<"..", "a">>)}

\* What the root directory can hold under one name: nothing, a file, an empty
\* directory, a directory holding the file "a", a symbolic link.
Slot(record, child) == [record |-> record, child |-> child]

Slots ==
    {Slot(NoRecord, NoRecord), Slot(DirRecord, NoRecord),
     Slot(DirRecord, FileRecord(MaxLen))}
        \cup {Slot(FileRecord(n), NoRecord) : n \in 0..MaxLen}
        \cup {Slot(SymlinkRecord(t), NoRecord) : t \in LinkPaths}

\* The identifiers stored in the image, and the same letters as a caller may
\* write them.
Identifiers == {"A", "B"}

CasedNames == Names \cup Identifiers

toLowerCase(s) == CASE s = "A" -> "a" [] s = "B" -> "b" [] OTHER -> s

toUpperCase(s) == CASE s = "a" -> "A" [] s = "b" -> "B" [] OTHER -> s

\* DirectoryRecord._decode: decoded identifiers are lower-cased.
_decode(identifier) == toLowerCase(identifier)

\* The records of an image by the key the directory maps hold them under.
Records(root) ==
    LET present == {n \in Identifiers : root[n].record # NoRecord}
        parents == {n \in Identifiers : root[n].child # NoRecord}
        Stored(name) == CHOOSE n \in Identifiers : _decode(n) = name
    IN  [p \in {<<>>} \cup {<<_decode(n)>> : n \in present}
                      \cup {<<_decode(n), _decode("A")>> : n \in parents}
            |-> IF p = <<>> THEN DirRecord
                ELSE IF Len(p) = 1 THEN root[Stored(p[1])].record
                ELSE root[Stored(p[1])].child]

\* The order of the records inside a directory extent.
NameOrder == <<"a", "b">>

\* record.directory.keys()
DirectoryKeys(path) ==
    LET Held(n) == Append(path, n) \in DOMAIN image
    IN  SelectSeq(NameOrder, Held)

\* _getDirectoryRecord(path): a record is known by the path it is stored at.
RECURSIVE WalkRecords(_, _, _)
WalkRecords(path, i, dir) ==
    IF i > Len(path) THEN [found |-> TRUE, at |-> dir]
    ELSE IF image[dir].kind # "dir" THEN [found |-> FALSE, at |-> <<>>]
    ELSE IF Append(dir, path[i]) \notin DOMAIN image
         THEN [found |-> FALSE, at |-> <<>>]
    ELSE WalkRecords(path, i + 1, Append(dir, path[i]))

_getDirectoryRecord(path) ==
    IF path = <<>> THEN [found |-> TRUE, at |-> <<>>]
    ELSE WalkRecords(path, 1, <<>>)

RECURSIVE normalize(_, _, _)
normalize(comps, i, out) ==
    IF i > Len(comps) THEN out
    ELSE IF comps[i] = ".."
         THEN normalize(comps, i + 1, IF out = <<>> THEN out ELSE Front(out))
         ELSE normalize(comps, i + 1, Append(out, comps[i]))

\* resolve(path, symlinkPath) of @zenfs/core/path.js: symlinkPath taken
\* relative to path, unless it starts at the root.
resolve(path, link) ==
    normalize(IF link.abs THEN link.comps ELSE path \o link.comps, 1, <<>>)

\* a & b and a | b on non-negative integers.
RECURSIVE BitAnd(_, _)
BitAnd(a, b) ==
    IF a = 0 \/ b = 0 THEN 0
    ELSE (a % 2) * (b % 2) + 2 * BitAnd(a \div 2, b \div 2)

RECURSIVE BitOr(_, _)
BitOr(a, b) ==
    IF a = 0 THEN b
    ELSE IF b = 0 THEN a
    ELSE Max(a % 2, b % 2) + 2 * BitOr(a \div 2, b \div 2)

\* A variant that leaves the mode of the PX entry as it is.
MaskNothing(mode) == mode

\* mode &= 0o555
MaskWriteable(mode) == BitAnd(mode, MODE_RX)

\* The mode before masking: 0o555, or the mode of the PX entry.
RecordMode(record) == IF record.px # NoPX THEN record.px ELSE MODE_RX

\* _get(path, record): the inode of a record, after following symbolic
\* links.  hops is what is left of the call stack: a cycle of links ends in
\* a RangeError.
RECURSIVE _get(_, _, _)
_get(path, at, hops) ==
    LET record == image[at]
    IN  IF record.kind = "symlink"
        THEN IF hops = 0 THEN IsoResult("stat", path, "RangeError")
             ELSE LET target == resolve(path, record.symlinkPath)
                      targetRecord == _getDirectoryRecord(target)
                  IN  IF ~targetRecord.found
                      THEN IsoResult("stat", path, "")
                      ELSE _get(target, targetRecord.at, hops - 1)
        ELSE [IsoResult("stat", path, "") EXCEPT
                 !.defined = TRUE,
                 !.inode = [mode |-> BitOr(MaskWriteable(RecordMode(record)),
                                           IF record.kind = "dir"
                                           THEN S_IFDIR ELSE S_IFREG),
                            size |-> record.dataLength]]

isoStatSync(path) ==
    LET record == _getDirectoryRecord(path)
    IN  IF ~record.found THEN IsoResult("stat", path, "ENOENT")
        ELSE [_get(path, record.at, Cardinality(DOMAIN image)) EXCEPT !.path = path]

isoReaddirSync(path) ==
    LET record == _getDirectoryRecord(path)
    IN  IF ~record.found THEN IsoResult("readdir", path, "ENOENT")
        ELSE IF image[record.at].kind = "dir"
        THEN [IsoResult("readdir", path, "") EXCEPT
                 !.defined = TRUE, !.names = DirectoryKeys(record.at)]
        ELSE IsoResult("readdir", path, "ENOTDIR")

\* readSync(path, buffer, offset, end): bytes is what buffer.set() copies.
isoReadSync(path, offset, end) ==
    LET record == _getDirectoryRecord(path)
        read == [IsoResult("read", path, "") EXCEPT !.offset = offset, !.end = end]
    IN  IF ~record.found THEN [read EXCEPT !.err = "ENOENT"]
        ELSE IF image[record.at].kind = "dir"
        THEN [read EXCEPT !.err = "EISDIR"]
        ELSE [read EXCEPT
                 !.defined = TRUE,
                 !.bytes = SubArray(image[record.at].file, offset, end)]

\* The paths a caller asks for, in either case.
IsoPaths == {<<>>} \cup UNION {[1..k -> CasedNames] : k \in 1..2}

CaseFolds == {"none", "lower", "upper"}

\* A mount that leaves the caller's path as it is.
foldNothing(fold, path) == path

\* The path the backend is called with: with caseFold set, the mount layer
\* of @zenfs/core lower-cases or upper-cases the caller's path.
foldPath(fold, path) ==
    [i \in 1..Len(path) |->
        IF fold = "lower" THEN toLowerCase(path[i])
        ELSE IF fold = "upper" THEN toUpperCase(path[i])
        ELSE path[i]]

IsoRanges == {<<0, SECTOR>>, <<1, SECTOR>>, <<0, 1>>}

IsoStatSync(path) ==
    /\ isoLast' = isoStatSync(foldPath(caseFold, path))
    /\ isoAsked' = path
    /\ UNCHANGED <<zipVars, streamVars, callVars, image, caseFold>>

IsoReaddirSync(path) ==
    /\ isoLast' = isoReaddirSync(foldPath(caseFold, path))
    /\ isoAsked' = path
    /\ UNCHANGED <<zipVars, streamVars, callVars, image, caseFold>>

IsoReadSync(path, offset, end) ==
    /\ isoLast' = isoReadSync(foldPath(caseFold, path), offset, end)
    /\ isoAsked' = path
    /\ UNCHANGED <<zipVars, streamVars, callVars, image, caseFold>>

IsoInit ==
    /\ NoCall
    /\ NoZip
    /\ NoStream
    /\ \E root \in [Identifiers -> Slots], fold \in CaseFolds :
           Mounted(Records(root), fold)

IsoNext ==
    \/ \E path \in IsoPaths : IsoStatSync(path)
    \/ \E path \in IsoPaths : IsoReaddirSync(path)
    \/ \E path \in IsoPaths, r \in IsoRanges : IsoReadSync(path, r[1], r[2])

IsoSpec == IsoInit /\ [][IsoNext]_vars

----------------------------------------------------------------------------
(* _get: the calls that follow symbolic links, one call at a time *)

MaxStack == 4         \* calls of _get the call stack of the engine holds

\* A call of _get(path, record) at the given depth of the call stack.
GetCall(path, at, depth) ==
    [called |-> TRUE, state |-> "call", path |-> path, at |-> at, depth |-> depth,
     err |-> "", defined |-> FALSE]

\* statSync(path) up to its call of _get
StatStart(path) ==
    /\ ret = NotCalled
    /\ LET record == _getDirectoryRecord(path)
       IN  ret' = IF ~record.found
                  THEN [GetCall(path, <<>>, 0) EXCEPT !.state = "return", !.err = "ENOENT"]
                  ELSE GetCall(path, record.at, 1)
    /\ arg' = path
    /\ UNCHANGED <<zipVars, streamVars, isoVars>>

\* The record is a symbolic link and its target has a record: _get calls
\* itself with the target.
GetFollow ==
    /\ ret # NotCalled
    /\ ret.state = "call"
    /\ image[ret.at].kind = "symlink"
    /\ ret.depth < MaxStack
    /\ LET target == resolve(ret.path, image[ret.at].symlinkPath)
           targetRecord == _getDirectoryRecord(target)
       IN  /\ targetRecord.found
           /\ ret' = GetCall(target, targetRecord.at, ret.depth + 1)
    /\ UNCHANGED <<zipVars, streamVars, isoVars, arg>>

\* if (!targetRecord) return;
GetMissing ==
    /\ ret # NotCalled
    /\ ret.state = "call"
    /\ image[ret.at].kind = "symlink"
    /\ ~_getDirectoryRecord(resolve(ret.path, image[ret.at].symlinkPath)).found
    /\ ret' = [ret EXCEPT !.state = "return"]
    /\ UNCHANGED <<zipVars, streamVars, isoVars, arg>>

\* The record is no symbolic link: _get returns its inode.
GetInode ==
    /\ ret # NotCalled
    /\ ret.state = "call"
    /\ image[ret.at].kind # "symlink"
    /\ ret' = [ret EXCEPT !.state = "return", !.defined = TRUE]
    /\ UNCHANGED <<zipVars, streamVars, isoVars, arg>>

\* The call stack is full and the record is one more symbolic link with a
\* target: the engine throws a RangeError out of statSync.
GetOverflow ==
    /\ ret # NotCalled
    /\ ret.state = "call"
    /\ image[ret.at].kind = "symlink"
    /\ ret.depth = MaxStack
    /\ _getDirectoryRecord(resolve(ret.path, image[ret.at].symlinkPath)).found
    /\ ret' = [ret EXCEPT !.state = "return", !.err = "RangeError"]
    /\ UNCHANGED <<zipVars, streamVars, isoVars, arg>>

FollowInit ==
    /\ NoCall
    /\ NoZip
    /\ NoStream
    /\ \E root \in [Identifiers -> Slots] : Mounted(Records(root), "none")

FollowNext ==
    \/ \E path \in IsoPaths : StatStart(path)
    \/ GetFollow
    \/ GetMissing
    \/ GetInode
    \/ GetOverflow

FollowSpec == FollowInit /\ [][FollowNext]_vars

\* C26: the calls that follow symbolic links are bounded by a depth limit of
\* the file system: no stat goes on calling until the call stack of the
\* engine is used up.
C26_DepthLimited ==
    ret # NotCalled => ret.err # "RangeError"

----------------------------------------------------------------------------
(* stat on both file systems: the mode of the inode *)

S_IFLNK == 40960
S_IWRITE == 146      \* 0o222

\* Modes of PX entries: permissions 0, 0o222, 0o644, 0o755, 0o777 and 0o7777
\* under each file type.
PXModes ==
    {BitOr(perm, type) : perm \in {0, S_IWRITE, 420, 493, 511, 4095},
                          type \in {0, S_IFDIR, S_IFREG, S_IFLNK}}

WithPX(record, px) == [record EXCEPT !.px = px]

\* Images with Rock Ridge: "a" is a file, a directory or a link to "b", "b"
\* is a file or a directory, each with or without PX entry.
ModeImages ==
    {[p \in {<<>>, <<"a">>, <<"b">>} |->
          IF p = <<>> THEN DirRecord ELSE IF p = <<"a">> THEN a ELSE b] :
        a \in {WithPX(r, px) :
                  r \in {FileRecord(0), DirRecord, SymlinkRecord(LinkPath(TRUE, <<"b">>))},
                  px \in PXModes \cup {NoPX}},
        b \in {WithPX(r, px) :
                  r \in {FileRecord(MaxLen), DirRecord}, px \in PXModes \cup {NoPX}}}

ModeInit ==
    /\ NoCall
    /\ NoStream
    /\ \/ NoIso /\ \E source \in TreeArchives : Construct(source, FALSE, {1})
       \/ NoZip /\ \E records \in ModeImages : Mounted(records, "none")

ModeNext ==
    \/ \E c \in Callers : ReadyCall(c)
    \/ \E c \in Callers : ReadyEnter(c)
    \/ \E c \in Callers : ReadyEOCD(c)
    \/ \E c \in Callers : ReadyEntry(c)
    \/ \E c \in Callers : ReadyLoad(c)
    \/ \E path \in QueryPaths : StatSync(path)
    \/ \E path \in {<<"a">>, <<"b">>} : IsoStatSync(path)

ModeSpec == ModeInit /\ [][ModeNext]_vars

\* C16: the inode of a stat has no write permission bit, the directory bit
\* exactly when the entry (for a symbolic link, the entry it leads to) is a
\* directory, and the regular-file bit exactly when it is not.
C16_ZipMode ==
    (last.op = "stat" /\ last.err = "") =>
        LET mode == last.inode.mode
            dir == \/ MapHas(directories, last.path)
                   \/ /\ MapHas(files, last.path)
                      /\ LET e == data.cd[MapGet(files, last.path)]
                         IN  e.slash \/ e.attr
        IN  /\ BitAnd(mode, S_IWRITE) = 0
            /\ HasFlag(mode, S_IFDIR) <=> dir
            /\ HasFlag(mode, S_IFREG) <=> ~dir

C16_IsoMode ==
    (isoLast.op = "stat" /\ isoLast.defined) =>
        LET mode == isoLast.inode.mode
            asked == image[isoLast.path]
            entry == IF asked.kind = "symlink"
                     THEN image[resolve(isoLast.path, asked.symlinkPath)]
                     ELSE asked
        IN  /\ BitAnd(mode, S_IWRITE) = 0
            /\ HasFlag(mode, S_IFDIR) <=> entry.kind = "dir"
            /\ HasFlag(mode, S_IFREG) <=> entry.kind # "dir"

C16_ModeBits == C16_ZipMode /\ C16_IsoMode

\* A stat of a record whose PX entry grants write permission and names
\* another file type has returned.
C16_Witness ==
    /\ isoLast.op = "stat"
    /\ isoLast.defined
    /\ image[isoLast.path].kind = "dir"
    /\ image[isoLast.path].px = BitOr(511, S_IFREG)
    /\ isoLast.inode.mode = BitOr(MODE_RX, S_IFDIR)

----------------------------------------------------------------------------
(* new IsoFS(data): the choice of the volume descriptor *)

BootRecord == 0
Primary == 1
Supplementary == 2
Partition == 3
SetTerminator == 255

MaxDescriptors == 4

\* One 2048-byte volume descriptor: its type byte and, for a supplementary
\* one, the first three bytes of its escape sequence.
Descriptor(type, escapeSequence) ==
    [type |-> type, escapeSequence |-> escapeSequence]

Descriptors ==
    {Descriptor(t, <<0, 0, 0>>) : t \in {BootRecord, Primary, Partition, SetTerminator}}
        \cup {Descriptor(Supplementary, e) :
                 e \in {<<37, 47, 64>>, <<37, 47, 69>>, <<37, 47, 65>>, <<37, 0, 64>>}}

\* The images: the descriptors found from sector 16 on, up to the end of data.
DescriptorAreas == SeqsUpTo(Descriptors, MaxDescriptors)

\* The test of the escape sequence of a supplementary descriptor.
ValidEscapeSequence(escapeSequence) ==
    /\ escapeSequence[1] = 37
    /\ escapeSequence[2] = 47
    /\ escapeSequence[3] \in {64, 67, 69}

NoCandidate == 0

Selected(err, candidate) == [called |-> TRUE, err |-> err, candidate |-> candidate]

\* A scan that does not stop at the set terminator.
RECURSIVE SelectPastTerminator(_, _, _, _)
SelectPastTerminator(vds, i, candidate, terminatorFound) ==
    IF i > Len(vds)
    THEN IF candidate = NoCandidate THEN Selected("EIO", NoCandidate)
         ELSE Selected("", candidate)
    ELSE IF vds[i].type = Primary
    THEN IF candidate # NoCandidate /\ vds[candidate].type = Supplementary
         THEN SelectPastTerminator(vds, i + 1, candidate, terminatorFound)
         ELSE SelectPastTerminator(vds, i + 1, i, terminatorFound)
    ELSE IF vds[i].type = Supplementary
    THEN IF ~ValidEscapeSequence(vds[i].escapeSequence)
         THEN Selected("EIO", NoCandidate)
         ELSE SelectPastTerminator(vds, i + 1, i, terminatorFound)
    ELSE SelectPastTerminator(vds, i + 1, candidate, terminatorFound)

\* The loop of the constructor from the i-th descriptor on, and what follows
\* it: the index of the descriptor that becomes this.pvd, or the error thrown.
RECURSIVE SelectDescriptor(_, _, _, _)
SelectDescriptor(vds, i, candidate, terminatorFound) ==
    IF i > Len(vds) \/ terminatorFound
    THEN IF candidate = NoCandidate THEN Selected("EIO", NoCandidate)
         ELSE Selected("", candidate)
    ELSE IF vds[i].type = Primary
    THEN IF candidate # NoCandidate /\ vds[candidate].type = Supplementary
         THEN SelectDescriptor(vds, i + 1, candidate, terminatorFound)
         ELSE SelectDescriptor(vds, i + 1, i, terminatorFound)
    ELSE IF vds[i].type = Supplementary
    THEN IF ~ValidEscapeSequence(vds[i].escapeSequence)
         THEN Selected("EIO", NoCandidate)
         ELSE SelectDescriptor(vds, i + 1, i, terminatorFound)
    ELSE IF vds[i].type = SetTerminator
    THEN SelectDescriptor(vds, i + 1, candidate, TRUE)
    ELSE SelectDescriptor(vds, i + 1, candidate, terminatorFound)

IsoConstructor ==
    /\ ret = NotCalled
    /\ ret' = SelectDescriptor(arg, 1, NoCandidate, FALSE)
    /\ UNCHANGED <<zipVars, streamVars, isoVars, arg>>

MountInit ==
    /\ NoZip
    /\ NoStream
    /\ NoIso
    /\ \E vds \in DescriptorAreas : Calling(vds)

MountNext == IsoConstructor

MountSpec == MountInit /\ [][MountNext]_vars

\* The descriptors before the first set terminator.
ScannedRange(vds) ==
    {i \in 1..Len(vds) : \A j \in 1..i : vds[j].type # SetTerminator}

\* C13: the mount scans the descriptors up to the first set terminator.  If a
\* supplementary descriptor with a valid escape sequence is in that range, the
\* selected descriptor is a supplementary one, wherever primary descriptors
\* stand; no descriptor after the terminator is selected; with no primary or
\* supplementary descriptor in the range the mount fails with EIO.
C13_DescriptorChoice ==
    ret # NotCalled =>
        LET range == ScannedRange(arg)
            chosen == ret.candidate
        IN  /\ ret.err = "" => chosen \in range
            /\ (/\ ret.err = ""
                /\ \E i \in range :
                      /\ arg[i].type = Supplementary
                      /\ arg[i].escapeSequence[1] = 37
                      /\ arg[i].escapeSequence[2] = 47
                      /\ arg[i].escapeSequence[3] \in {64, 67, 69})
                   => arg[chosen].type = Supplementary
            /\ (\A i \in range : arg[i].type \notin {Primary, Supplementary})
                   => ret.err = "EIO"
            /\ (/\ \A i \in range : arg[i].type # Supplementary
                /\ \E j \in range : arg[j].type = Primary)
                   => (ret.err = "" /\ arg[chosen].type = Primary)

\* A supplementary descriptor between two primary ones was selected, and a
\* primary descriptor stands after the terminator.
C13_Witness ==
    /\ ret # NotCalled
    /\ Len(arg) = 4
    /\ arg[1].type = Primary
    /\ arg[2].type = Supplementary
    /\ arg[3].type = SetTerminator
    /\ arg[4].type = Primary
    /\ ret.err = ""
    /\ ret.candidate = 2

----------------------------------------------------------------------------
(* DirectoryRecord.fileName: strings are sequences of characters *)

CONTINUE == 1
CURRENT == 2
PARENT == 4

MaxIdentifier == 3    \* most characters of an identifier
MaxNM == 2            \* most NM entries of a record

sizeof_NMEntry == 5   \* signature, length, version and flags of an NM entry

\* An NM entry: its flags, its name content (length - 5 bytes), and the
\* bytes that follow the entry in the image.
NM(flags, content, following) ==
    [flags |-> flags, content |-> content, length |-> sizeof_NMEntry + Len(content),
     following |-> following]

NextEntryBytes == <<"N", "M", "6", "1", "0">>

NMEntries ==
    {NM(f, c, NextEntryBytes) :
        f \in {0, CONTINUE, CURRENT, PARENT}, c \in {<<"A">>, <<"a", "b">>}}

Identifier(isDir, hasRockRidge, identifier, nm) ==
    [isDirectory |-> isDir, hasRockRidge |-> hasRockRidge,
     identifier |-> identifier, nmEntries |-> nm]

NamedRecords ==
    {Identifier(d, rr, id, nm) :
        d \in BOOLEAN, rr \in BOOLEAN,
        id \in SeqsUpTo({"A", ".", ";"}, MaxIdentifier),
        nm \in SeqsUpTo(NMEntries, MaxNM)}

\* this._decode on a string of several characters.
decodeString(bytes) == [i \in 1..Len(bytes) |-> _decode(bytes[i])]

\* new Uint8Array(this.buffer, this.byteOffset + 5, this.length)
NameBytes(e) == SubSeq(e.content \o e.following, 1, e.length)

\* NMEntry.name(getString)
NMEntryName(e) == decodeString(NameBytes(e))

\* The loop of _rockRidgeFilename from the i-th NM entry on.
RECURSIVE ConcatNames(_, _, _)
ConcatNames(nm, i, str) ==
    IF i > Len(nm) THEN str
    ELSE IF ~HasFlag(nm[i].flags, CONTINUE) THEN str \o NMEntryName(nm[i])
    ELSE ConcatNames(nm, i + 1, str \o NMEntryName(nm[i]))

Null == [null |-> TRUE, str |-> <<>>]

_rockRidgeFilename(record) ==
    LET nm == record.nmEntries
    IN  IF Len(nm) = 0 \/ HasFlag(nm[1].flags, CURRENT) \/ HasFlag(nm[1].flags, PARENT)
        THEN Null
        ELSE [null |-> FALSE, str |-> ConcatNames(nm, 1, <<>>)]

\* String.prototype.indexOf: the 0-based index of the first c, or -1.
indexOf(str, c) ==
    IF \E i \in 1..Len(str) : str[i] = c
    THEN (CHOOSE i \in 1..Len(str) :
              str[i] = c /\ \A j \in 1..(i - 1) : str[j] # c) - 1
    ELSE -1

\* String.prototype.slice(0, end) for end >= 0.
slice(str, end) == SubSeq(str, 1, Min(end, Len(str)))

fileName(record) ==
    LET fn == IF record.hasRockRidge THEN _rockRidgeFilename(record) ELSE Null
        ident == decodeString(record.identifier)
        versionSeparator == indexOf(ident, ";")
    IN  IF ~fn.null THEN fn.str
        ELSE IF record.isDirectory THEN ident
        ELSE IF versionSeparator = -1 THEN ident
        ELSE IF versionSeparator >= 1 /\ ident[versionSeparator] = "."
             THEN slice(ident, versionSeparator - 1)
        ELSE slice(ident, versionSeparator)

FileName ==
    /\ ret = NotCalled
    /\ ret' = [called |-> TRUE, name |-> fileName(arg)]
    /\ UNCHANGED <<zipVars, streamVars, isoVars, arg>>

NameInit ==
    /\ NoZip
    /\ NoStream
    /\ NoIso
    /\ \E record \in NamedRecords : Calling(record)

NameNext == FileName

NameSpec == NameInit /\ [][NameNext]_vars

\* The name contents of the NM entries up to the first without CONTINUE.
RECURSIVE ChainContent(_, _)
ChainContent(nm, i) ==
    IF i > Len(nm) THEN <<>>
    ELSE IF nm[i].flags = CONTINUE
         THEN nm[i].content \o ChainContent(nm, i + 1)
         ELSE nm[i].content

\* The identifier of a file without its version suffix.
WithoutVersion(ident) ==
    IF \A i \in 1..Len(ident) : ident[i] # ";" THEN ident
    ELSE LET semi == CHOOSE i \in 1..Len(ident) :
                         ident[i] = ";" /\ \A j \in 1..(i - 1) : ident[j] # ";"
         IN  IF semi > 1 /\ ident[semi - 1] = "."
             THEN SubSeq(ident, 1, semi - 2)
             ELSE SubSeq(ident, 1, semi - 1)

\* C14: with Rock Ridge active and NM entries of which the first carries
\* neither CURRENT nor PARENT, fileName is the concatenation of the name
\* contents of the NM entries along the CONTINUE chain, and no byte more;
\* otherwise a directory yields its identifier, and a file its identifier cut
\* at the first ";" (and at a "." directly before it).
C14_FileName ==
    ret # NotCalled =>
        LET nm == arg.nmEntries
        IN  IF arg.hasRockRidge /\ Len(nm) > 0 /\ nm[1].flags \in {0, CONTINUE}
            THEN ret.name = decodeString(ChainContent(nm, 1))
            ELSE IF arg.isDirectory
            THEN ret.name = decodeString(arg.identifier)
            ELSE ret.name = WithoutVersion(decodeString(arg.identifier))

----------------------------------------------------------------------------
(* Directory: the listing of a directory record, relocated directories *)

SectorSlots == 4      \* directory records that fit in one sector

FileFlags_Directory == 2

CurrentName == "<0>"  \* the identifier of the "." record, the byte 0
ParentName == "<1>"   \* the identifier of the ".." record, the byte 1

RootSector == 1
DirSectors == {1, 2}  \* sectors whose directories hold any kind of record
LeafSector == 3       \* a sector whose directory holds files only
Sectors == DirSectors \cup {LeafSector}
ImageEnd == (LeafSector + 1) * SectorSlots

\* What stands under a name in a directory: nothing, a file, a directory, a
\* record with a CL entry (the logical place of a relocated directory) or a
\* directory record with an RE entry (its physical place).
EntryKinds(targets) ==
    {[kind |-> "none", to |-> 0], [kind |-> "file", to |-> 0]}
    \cup {[kind |-> k, to |-> t] : k \in {"dir", "cl", "re"}, t \in targets}

Layouts ==
    {l \in [Sectors -> [Names -> EntryKinds(Sectors \ {RootSector})]] :
        \A n \in Names : l[LeafSector][n].kind \in {"none", "file"}}

\* A directory record: its file name, its flags, the byte offset and length
\* of its extent, the childDirectoryLba of its CL entry (0: no CL entry) and
\* whether it carries an RE entry. Offsets count records, not bytes.
Rec(name, flags, lba, dataLength, cl, re) ==
    [length |-> 1, name |-> name, flags |-> flags, lba |-> lba,
     dataLength |-> dataLength, cl |-> cl, re |-> re]

Zero == [length |-> 0]

DirOf(sector, name) ==
    Rec(name, FileFlags_Directory, sector * SectorSlots, SectorSlots, 0, FALSE)

EntryRecord(name, e) ==
    CASE e.kind = "file" -> Rec(name, 0, 0, 0, 0, FALSE)
      [] e.kind = "dir" -> DirOf(e.to, name)
      [] e.kind = "cl" -> Rec(name, 0, 0, 0, e.to, FALSE)
      [] e.kind = "re" -> [DirOf(e.to, name) EXCEPT !.re = TRUE]

NameSeq == <<"a", "b">>

ExtentRecords(layout, sector) ==
    <<DirOf(sector, CurrentName), DirOf(RootSector, ParentName)>>
    \o [i \in 1..Len(SelectSeq(NameSeq, LAMBDA n : layout[sector][n].kind # "none")) |->
           LET n == SelectSeq(NameSeq, LAMBDA m : layout[sector][m].kind # "none")[i]
           IN  EntryRecord(n, layout[sector][n])]

\* The image: the records of each directory from the start of its sector, and
\* zeroes elsewhere.
ImageOf(extents) ==
    [i \in 0..(ImageEnd - 1) |->
        LET sector == i \div SectorSlots
            k == (i % SectorSlots) + 1
        IN  IF sector \in DOMAIN extents /\ k <= Len(extents[sector])
            THEN extents[sector][k]
            ELSE Zero]

ImageData(layout) ==
    ImageOf([sector \in DOMAIN layout |-> ExtentRecords(layout, sector)])

Limit(at) == [inf |-> FALSE, at |-> at]
Infinity == [inf |-> TRUE, at |-> 0]

\* A variant that never takes a record for the old place of a directory.
HasNoRE(rr, record) == FALSE

\* _record.hasRockRidge && _record.suEntries.filter(e => e instanceof REEntry).length
HasRE(rr, record) == rr /\ record.re

\* The cursor, the limit and the map of the loop of the constructor of
\* Directory.
Walker(i, limit, map) == [i |-> i, limit |-> limit, map |-> map]

\* while (i < limit)
WalkGoesOn(w) == w.limit.inf \/ w.i < w.limit.at

\* One turn of the loop.  data[i] past the end of the image is undefined,
\* which the loop takes for a zero.
WalkTurn(isoData, rr, w) ==
    LET _record == IF w.i < ImageEnd THEN isoData[w.i] ELSE Zero
    IN  IF _record.length = 0
        THEN Walker(w.i + 1, w.limit, w.map)
        ELSE IF /\ _record.name # CurrentName
                /\ _record.name # ParentName
                /\ ~HasRE(rr, _record)
        THEN Walker(w.i + _record.length, w.limit,
                    MapSet(w.map, _record.name, _record))
        ELSE IF w.limit.inf
        THEN Walker(w.i + _record.length, Limit(w.i + _record.dataLength), w.map)
        ELSE Walker(w.i + _record.length, w.limit, w.map)

\* The loop of the constructor of Directory. A walk without a limit that runs
\* off the image does not end.
RECURSIVE DirectoryWalk(_, _, _, _, _)
DirectoryWalk(isoData, rr, i, limit, map) ==
    LET w == Walker(i, limit, map)
        next == WalkTurn(isoData, rr, w)
    IN  IF ~WalkGoesOn(w) THEN [err |-> "", map |-> map]
        ELSE IF i >= ImageEnd /\ limit.inf THEN [err |-> "hang", map |-> map]
        ELSE DirectoryWalk(isoData, rr, next.i, next.limit, next.map)

\* new Directory(record)
Directory(isoData, rr, record) ==
    IF HasFlag(record.flags, FileFlags_Directory)
    THEN DirectoryWalk(isoData, rr, record.lba, Limit(record.lba + record.dataLength), <<>>)
    ELSE IF record.cl = 0 THEN [err |-> "ReferenceError", map |-> <<>>]
    ELSE DirectoryWalk(isoData, rr, record.cl * SectorSlots, Infinity, <<>>)

\* DirectoryRecord.isDirectory
recordIsDirectory(rr, record) ==
    HasFlag(record.flags, FileFlags_Directory) \/ (rr /\ record.cl # 0)

\* DirectoryRecord.getDirectory
getDirectory(isoData, rr, record) ==
    IF ~recordIsDirectory(rr, record)
    THEN [err |-> "Tried to get a Directory from a file.", map |-> <<>>]
    ELSE Directory(isoData, rr, record)

RootRecord == DirOf(RootSector, "")

ListedRecords(layout) ==
    {RootRecord} \cup
    UNION {{EntryRecord(n, layout[s][n]) : n \in {m \in Names : layout[s][m].kind # "none"}} :
              s \in DOMAIN layout}

GetDirectory(record) ==
    /\ ret = NotCalled
    /\ record \in ListedRecords(arg.layout)
    /\ ret' = [called |-> TRUE, record |-> record,
               dir |-> getDirectory(ImageData(arg.layout), arg.rr, record)]
    /\ UNCHANGED <<zipVars, streamVars, isoVars, arg>>

RelocInit ==
    /\ NoZip
    /\ NoStream
    /\ NoIso
    /\ \E rr \in BOOLEAN, layout \in Layouts : Calling([rr |-> rr, layout |-> layout])

RelocNext == \E record \in ListedRecords(arg.layout) : GetDirectory(record)

RelocSpec == RelocInit /\ [][RelocNext]_vars

\* The extent a directory record is read from.
ExtentSector(record) ==
    IF HasFlag(record.flags, FileFlags_Directory)
    THEN record.lba \div SectorSlots
    ELSE record.cl

\* The names a listing of a sector must hold with Rock Ridge active.
ListedNames(layout, sector) ==
    {n \in Names : layout[sector][n].kind \notin {"none", "re"}}

----------------------------------------------------------------------------
(* Directory: the loop, turn by turn, on images of any content *)

\* What a slot of the root's extent can hold under a name: a file, the
\* directory of sector 2, the same with a dataLength that ends after the
\* image, a CL entry for sector 2, a CL entry for the sector after it, which
\* holds zeroes only.
WalkEntries(slot) ==
    UNION {{Rec(n, 0, slot, slot, 0, FALSE),
            DirOf(2, n),
            [DirOf(2, n) EXCEPT !.dataLength = ImageEnd],
            Rec(n, 0, 0, 0, 2, FALSE),
            Rec(n, 0, 0, 0, LeafSector, FALSE)} : n \in Names}

WalkExtents(e1, e2) ==
    [sector \in {RootSector, 2} |->
        IF sector = RootSector
        THEN <<DirOf(RootSector, CurrentName), DirOf(RootSector, ParentName), e1, e2>>
        ELSE <<DirOf(2, CurrentName), DirOf(RootSector, ParentName),
               Rec("a", 0, 0, 0, 0, FALSE)>>]

\* record.directory: getDirectory and the start of the constructor.
WalkStart(record) ==
    /\ ret = NotCalled
    /\ record \in {RootRecord, arg.extents[RootSector][3], arg.extents[RootSector][4]}
    /\ LET start == IF HasFlag(record.flags, FileFlags_Directory)
                    THEN Walker(record.lba, Limit(record.lba + record.dataLength), <<>>)
                    ELSE Walker(record.cl * SectorSlots, Infinity, <<>>)
       IN  ret' = [called |-> TRUE, record |-> record,
                   state |-> IF ~recordIsDirectory(arg.rr, record) THEN "Error"
                             ELSE "walk",
                   prev |-> -1, w |-> start]
    /\ UNCHANGED <<zipVars, streamVars, isoVars, arg>>

\* One turn of the loop.  (A cursor past the end of the image is followed
\* for one more turn only.)
WalkStep ==
    /\ ret # NotCalled
    /\ ret.state = "walk"
    /\ WalkGoesOn(ret.w)
    /\ ret.w.i <= ImageEnd
    /\ ret' = [ret EXCEPT !.prev = ret.w.i,
                          !.w = WalkTurn(ImageOf(arg.extents), arg.rr, ret.w)]
    /\ UNCHANGED <<zipVars, streamVars, isoVars, arg>>

WalkEnd ==
    /\ ret # NotCalled
    /\ ret.state = "walk"
    /\ ~WalkGoesOn(ret.w)
    /\ ret' = [ret EXCEPT !.state = "done"]
    /\ UNCHANGED <<zipVars, streamVars, isoVars, arg>>

WalkInit ==
    /\ NoZip
    /\ NoStream
    /\ NoIso
    /\ \E rr \in BOOLEAN, e1 \in WalkEntries(1), e2 \in WalkEntries(2) :
           Calling([rr |-> rr, extents |-> WalkExtents(e1, e2)])

WalkNext ==
    \/ \E record \in {RootRecord} \cup WalkEntries(1) \cup WalkEntries(2) :
           WalkStart(record)
    \/ WalkStep
    \/ WalkEnd

WalkSpec == WalkInit /\ [][WalkNext]_vars

\* C22: of the records of the root's extent that yield one file name, the
\* map of the root holds the first.
C22_FirstKept ==
    (ret # NotCalled /\ ret.state = "done" /\ ret.record = RootRecord) =>
        LET extent == arg.extents[RootSector]
        IN  \A k \in 3..Len(extent) :
                (\A j \in 3..(k - 1) : extent[j].name # extent[k].name) =>
                    /\ MapHas(ret.w.map, extent[k].name)
                    /\ MapGet(ret.w.map, extent[k].name) = extent[k]

\* C23: in every turn of the loop the cursor is past where it was, and the
\* byte the loop looks at lies in the image and, for a record with the
\* Directory flag, before lba + dataLength.
C23_WalkInBounds ==
    (ret # NotCalled /\ ret.state = "walk") =>
        /\ ret.prev < ret.w.i
        /\ WalkGoesOn(ret.w) =>
              /\ ret.w.i < ImageEnd
              /\ HasFlag(ret.record.flags, FileFlags_Directory) =>
                    ret.w.i < ret.record.lba + ret.record.dataLength

----------------------------------------------------------------------------
(* constructSystemUseEntries: the walk over a system-use area *)

MaxSusp == 2          \* most entries of a system-use area

sizeof_SystemUseEntry == 4

\* A system-use area: where it starts in its buffer, the length handed to the
\* walk, and its entries, one after the other from the start on, each as
\* long as its length field says; zeroes follow them.
Area(byteOffset, length, entries) ==
    [byteOffset |-> byteOffset, length |-> length, entries |-> entries]

NoArea == Area(0, 0, <<>>)

\* An entry: its signature, its length field and, for a CE entry, the
\* continuation area that extent, offset and size name.
SU(sig, length) == [sig |-> sig, length |-> length, area |-> NoArea]

CE(length, area) == [sig |-> "CE", length |-> length, area |-> area]

Zeroes == SU("", 0)

\* A continuation area of 9 bytes at offset 8 of the image, holding a PX
\* entry of 5 bytes, and one that holds nothing.
ContinuationAreas == {Area(8, 9, <<SU("PX", 5)>>), Area(8, 0, <<>>)}

SuspEntries ==
    {SU(s, l) : s \in {"NM", "RE", "ST"}, l \in {0, 2, 4, 5}}
        \cup {CE(5, a) : a \in ContinuationAreas}

RECURSIVE SumLengths(_, _)
SumLengths(entries, k) ==
    IF k > Len(entries) THEN 0 ELSE entries[k].length + SumLengths(entries, k + 1)

\* The system-use areas of directory records: the entries begin at byte
\* `start` of the record, and 0, 3 or 6 bytes of the record follow them.
RecordAreas ==
    {Area(start, start + SumLengths(es, 1) + pad, es) :
        start \in {0, 1}, pad \in {0, 3, 6},
        es \in UNION {[1..n -> SuspEntries] : n \in 0..MaxSusp}}

\* Every array is truthy, the empty one too.
Truthy(array) == TRUE

RECURSIVE SystemUseLoop(_, _, _, _, _)
RECURSIVE CEEntry_entries(_)

\* The loop of constructSystemUseEntries: entries[k] stands at byteOffset.
SystemUseLoop(entries, k, byteOffset, length, result) ==
    IF ~(byteOffset < length) THEN result
    ELSE LET entry == IF k <= Len(entries) THEN entries[k] ELSE Zeroes
         IN  IF entry.length = 0 THEN result
             ELSE IF entry.sig = "ST" THEN result
             ELSE SystemUseLoop(entries, k + 1, byteOffset + entry.length, length,
                                result \o (IF entry.sig = "CE"
                                           THEN CEEntry_entries(entry)
                                           ELSE <<entry>>))

\* constructSystemUseEntries(buffer, byteOffset, length)
constructSystemUseEntries(area) ==
    SystemUseLoop(area.entries, 1, area.byteOffset,
                  area.length - sizeof_SystemUseEntry, <<>>)

\* CEEntry.entries(): _entries starts as [], and ||= assigns to a falsy
\* left side only.
CEEntry_entries(entry) ==
    LET _entries == <<>>
    IN  IF Truthy(_entries) THEN _entries
        ELSE constructSystemUseEntries(entry.area)

\* DirectoryRecord.getSUEntries
GetSUEntries ==
    /\ ret = NotCalled
    /\ ret' = [called |-> TRUE, entries |-> constructSystemUseEntries(arg)]
    /\ UNCHANGED <<zipVars, streamVars, isoVars, arg>>

SuspInit ==
    /\ NoZip
    /\ NoStream
    /\ NoIso
    /\ \E area \in RecordAreas : Calling(area)

SuspNext == GetSUEntries

SuspSpec == SuspInit /\ [][SuspNext]_vars

\* The entries of an area up to the first entry with a length below 4, an ST
\* entry, or fewer than 4 bytes left, `left` being the bytes of the area from
\* entries[k] on; a CE entry gives way to the entries of its area.
RECURSIVE EntriesUpToStop(_, _, _)
EntriesUpToStop(entries, k, left) ==
    IF k > Len(entries) \/ left < sizeof_SystemUseEntry THEN <<>>
    ELSE IF entries[k].length < sizeof_SystemUseEntry \/ entries[k].sig = "ST"
    THEN <<>>
    ELSE (IF entries[k].sig = "CE"
          THEN EntriesUpToStop(entries[k].area.entries, 1, entries[k].area.length)
          ELSE <<entries[k]>>)
         \o EntriesUpToStop(entries, k + 1, left - entries[k].length)

\* C24: the walk returns, in the order of the area, the entries before the
\* first entry with a length below 4, before an ST entry, and before the
\* point where fewer than 4 bytes of the area are left.
C24_SuspWalk ==
    (ret # NotCalled /\ \A k \in 1..Len(arg.entries) : arg.entries[k].sig # "CE") =>
        ret.entries = EntriesUpToStop(arg.entries, 1, arg.length - arg.byteOffset)

\* The entries the loop returns when a CE entry gives way to the entries of
\* its continuation area.
RECURSIVE Spliced(_, _, _, _)
Spliced(entries, k, byteOffset, length) ==
    IF ~(byteOffset < length) \/ k > Len(entries) THEN <<>>
    ELSE IF entries[k].length = 0 \/ entries[k].sig = "ST" THEN <<>>
    ELSE (IF entries[k].sig = "CE"
          THEN EntriesUpToStop(entries[k].area.entries, 1, entries[k].area.length)
          ELSE <<entries[k]>>)
         \o Spliced(entries, k + 1, byteOffset + entries[k].length, length)

\* C25: where the walk meets a CE entry, the entries of its continuation
\* area stand in the result, between those before and those after it.
C25_ContinuationSpliced ==
    ret # NotCalled =>
        ret.entries = Spliced(arg.entries, 1, arg.byteOffset,
                              arg.length - sizeof_SystemUseEntry)

----------------------------------------------------------------------------
(* PrimaryVolumeDescriptor: Rock Ridge found on the root, and the records
   served afterwards *)

MaxRootEntries == 3   \* most system-use entries of the root's '.' record

rockRidgeIdentifier == "IEEE_P1282"

\* The system-use entries the '.' record of the root may carry: SP with the
\* right or a wrong magic and a skip of 0 or 1, RR, ER of Rock Ridge or of
\* another extension, PX.
SPMagic == <<190, 239>>

RootEntries ==
    {[sig |-> "SP", magic |-> m, skip |-> s, extensionIdentifier |-> ""] :
        m \in {SPMagic, <<0, 0>>}, s \in {0, 1}}
        \cup {[sig |-> s, magic |-> <<>>, skip |-> 0, extensionIdentifier |-> ""] :
                 s \in {"RR", "PX"}}
        \cup {[sig |-> "ER", magic |-> <<>>, skip |-> 0, extensionIdentifier |-> id] :
                 id \in {rockRidgeIdentifier, "OTHER"}}

\* SPEntry.checkMagic
checkMagic(entry) == entry.magic[1] = 190 /\ entry.magic[2] = 239

\* The loop over suEntries.slice(1): the skip of the SP entry once an RR
\* entry or the ER entry of Rock Ridge is met, -1 at the end.
RECURSIVE AfterSP(_, _)
AfterSP(suEntries, i) ==
    IF i > Len(suEntries) THEN -1
    ELSE IF suEntries[i].sig = "RR"
            \/ (suEntries[i].sig = "ER"
                /\ suEntries[i].extensionIdentifier = rockRidgeIdentifier)
    THEN suEntries[1].skip
    ELSE AfterSP(suEntries, i + 1)

\* The offset the root gets from the entries of its '.' record.
_getRockRidgeOffset(suEntries) ==
    IF Len(suEntries) > 0 /\ suEntries[1].sig = "SP" /\ checkMagic(suEntries[1])
    THEN AfterSP(suEntries, 2)
    ELSE -1

\* A record's directory: not built, or built with the offset every record
\* of it, the '.' record too, took from the record it was built for.
NotBuilt == [built |-> FALSE, rockRidgeOffset |-> -1]

NewDirectory(record) == [built |-> TRUE, rockRidgeOffset |-> record.rockRidgeOffset]

\* record.directory: the directory is built on first use and kept.
directory(record) == IF record._dir.built THEN record._dir ELSE NewDirectory(record)

\* new DirectoryRecord: no Rock Ridge known, no directory built.
NewRecord == [rockRidgeOffset |-> -1, _dir |-> NotBuilt]

\* The volume descriptor while it is built and after: its root record, the
\* '.' record of the root, the directory "a" of the root, and the records
\* handed out so far, each with the offset it had when handed out.
Pvd(at, root, dot, a, served) ==
    [called |-> TRUE, pc |-> at, root |-> root, dot |-> dot, a |-> a,
     served |-> served]

\* this._root = new DirectoryRecord(...); dir = this._root.directory.dotEntry
PvdRoot ==
    /\ ret = NotCalled
    /\ LET _dir == directory(NewRecord)
       IN  ret' = Pvd("dotEntry", [NewRecord EXCEPT !._dir = _dir],
                      [NewRecord EXCEPT !.rockRidgeOffset = _dir.rockRidgeOffset],
                      NewRecord, <<>>)
    /\ UNCHANGED <<zipVars, streamVars, isoVars, arg>>

\* The constructor's search of dir.suEntries, and the wiping that follows
\* it: of the '.' record's directory.
PvdDetect ==
    /\ ret # NotCalled
    /\ ret.pc = "dotEntry"
    /\ arg.variant = "accessor"
    /\ LET offset == _getRockRidgeOffset(arg.suEntries)
       IN  ret' = [ret EXCEPT
                      !.pc = "mounted",
                      !.root.rockRidgeOffset = offset,
                      !.dot._dir = IF offset > -1 THEN NotBuilt ELSE @]
    /\ UNCHANGED <<zipVars, streamVars, isoVars, arg>>

\* rootCheckForRockRidge: the search, and the wiping of the root's own
\* directory.
rootCheckForRockRidge ==
    /\ ret # NotCalled
    /\ ret.pc = "dotEntry"
    /\ arg.variant = "method"
    /\ LET offset == _getRockRidgeOffset(arg.suEntries)
       IN  ret' = [ret EXCEPT
                      !.pc = "mounted",
                      !.root.rockRidgeOffset = offset,
                      !.root._dir = IF offset > -1 THEN NotBuilt ELSE @]
    /\ UNCHANGED <<zipVars, streamVars, isoVars, arg>>

Served(path, offset) == [path |-> path, rockRidgeOffset |-> offset]

\* _getDirectoryRecord("/a"): the record "a" out of the root's directory
ServeChild ==
    /\ ret # NotCalled
    /\ ret.pc = "mounted"
    /\ Len(ret.served) < 2
    /\ LET _dir == directory(ret.root)
       IN  ret' = [ret EXCEPT
                      !.root._dir = _dir,
                      !.a.rockRidgeOffset = _dir.rockRidgeOffset,
                      !.served = Append(@, Served(<<"a">>, _dir.rockRidgeOffset))]
    /\ UNCHANGED <<zipVars, streamVars, isoVars, arg>>

\* _getDirectoryRecord("/a/b"): "a" out of the root's directory, "b" out of
\* the directory of "a"
ServeGrandchild ==
    /\ ret # NotCalled
    /\ ret.pc = "mounted"
    /\ Len(ret.served) < 2
    /\ LET _dir == directory(ret.root)
           a == [ret.a EXCEPT !.rockRidgeOffset = _dir.rockRidgeOffset]
           a_dir == directory(a)
       IN  ret' = [ret EXCEPT
                      !.root._dir = _dir,
                      !.a = [a EXCEPT !._dir = a_dir],
                      !.served = Append(@, Served(<<"a", "b">>, a_dir.rockRidgeOffset))]
    /\ UNCHANGED <<zipVars, streamVars, isoVars, arg>>

PvdInit ==
    /\ NoZip
    /\ NoStream
    /\ NoIso
    /\ \E variant \in {"accessor", "method"},
          suEntries \in UNION {[1..n -> RootEntries] : n \in 0..MaxRootEntries} :
           Calling([variant |-> variant, suEntries |-> suEntries])

PvdNext ==
    \/ PvdRoot
    \/ PvdDetect
    \/ rootCheckForRockRidge
    \/ ServeChild
    \/ ServeGrandchild

PvdSpec == PvdInit /\ [][PvdNext]_vars

\* C27: once mounted, every record handed out of a directory has the offset
\* found on the root: the skip of the SP entry when Rock Ridge was found, -1
\* when it was not.
C27_OffsetServed ==
    (ret # NotCalled /\ ret.pc = "mounted") =>
        \A i \in 1..Len(ret.served) :
            ret.served[i].rockRidgeOffset = ret.root.rockRidgeOffset

----------------------------------------------------------------------------
(* TFEntry: the recorded time of a flag, and the times of a stat *)

\* TFFlag
CREATION == 1
MODIFY == 2
ACCESS == 4
BACKUP == 16
EXPIRATION == 32
EFFECTIVE == 64

TFKinds == {CREATION, MODIFY, ACCESS, BACKUP, EXPIRATION, EFFECTIVE}

\* The flags byte of a TF entry.
TFFlags == 0..255

\* flags & (1 << i) on a flags byte: the shift count is taken modulo 32.
FlagAt(flags, i) ==
    LET shift == i % 32
    IN  shift < 8 /\ (flags \div (2 ^ shift)) % 2 = 1

\* A time: the record's recording date, or the time recorded at a place
\* after the flags byte of the TF entry, the places counted from 0.
RecordingDate == [from |-> "recordingDate", index |-> 0]

Recorded(index) == [from |-> "TF", index |-> index]

NoDate == [from |-> "undefined", index |-> 0]

\* The loop of _getDate: index after the turns i, i + 1, ..., kind - 2.
RECURSIVE CountFlags(_, _, _, _)
CountFlags(flags, kind, i, index) ==
    IF ~(i < kind - 1) THEN index
    ELSE CountFlags(flags, kind, i + 1, index + (IF FlagAt(flags, i) THEN 1 ELSE 0))

\* TFEntry._getDate(kind)
_getDate(flags, kind) ==
    IF ~HasFlag(flags, kind) THEN NoDate
    ELSE Recorded(CountFlags(flags, kind, 0, 0))

\* The getters creation, modify, access, backup, expiration, effective
TFGetter ==
    /\ ret = NotCalled
    /\ arg.op = "getter"
    /\ ret' = [called |-> TRUE, date |-> _getDate(arg.flags, arg.kind),
               atimeMs |-> NoDate, mtimeMs |-> NoDate, ctimeMs |-> NoDate]
    /\ UNCHANGED <<zipVars, streamVars, isoVars, arg>>

\* _get: the times of the inode of a record with one TF entry
TFStat ==
    /\ ret = NotCalled
    /\ arg.op = "stat"
    /\ ret' = [called |-> TRUE, date |-> NoDate,
               atimeMs |-> IF HasFlag(arg.flags, ACCESS)
                           THEN _getDate(arg.flags, ACCESS) ELSE RecordingDate,
               mtimeMs |-> IF HasFlag(arg.flags, MODIFY)
                           THEN _getDate(arg.flags, MODIFY) ELSE RecordingDate,
               ctimeMs |-> IF HasFlag(arg.flags, CREATION)
                           THEN _getDate(arg.flags, CREATION) ELSE RecordingDate]
    /\ UNCHANGED <<zipVars, streamVars, isoVars, arg>>

TFInit ==
    /\ NoZip
    /\ NoStream
    /\ NoIso
    /\ \E flags \in TFFlags, kind \in TFKinds, op \in {"getter", "stat"} :
           Calling([op |-> op, flags |-> flags, kind |-> kind])

TFNext == TFGetter \/ TFStat

TFSpec == TFInit /\ [][TFNext]_vars

\* The number of flags set below the flag `kind`.
SetBelow(flags, kind) ==
    Cardinality({b \in 0..7 : 2 ^ b < kind /\ (flags \div (2 ^ b)) % 2 = 1})

\* The time of a flag: the one recorded at the place that is the number of
\* flags set below it, the recording date when the flag is not set.
TimeOf(flags, kind) ==
    IF HasFlag(flags, kind) THEN Recorded(SetBelow(flags, kind))
    ELSE RecordingDate

\* C29: the time a getter returns for a set flag is the one recorded at the
\* place counted by the flags set strictly below it; a stat takes atime,
\* mtime and ctime from the places of access, modify and creation when these
\* are set, and from the recording date otherwise.
C29_TimeSlots ==
    /\ (ret # NotCalled /\ arg.op = "getter" /\ ret.date # NoDate) =>
           ret.date = Recorded(SetBelow(arg.flags, arg.kind))
    /\ (ret # NotCalled /\ arg.op = "stat") =>
           /\ ret.atimeMs = TimeOf(arg.flags, ACCESS)
           /\ ret.mtimeMs = TimeOf(arg.flags, MODIFY)
           /\ ret.ctimeMs = TimeOf(arg.flags, CREATION)

----------------------------------------------------------------------------
(* computeEOCD: the backward scan for the end-of-central-directory record *)

sizeof_Header == 22
EOCD_WINDOW == 65535    \* 0xffff

ScanSizes == {sizeof_Header - 1, sizeof_Header, sizeof_Header + 1}

\* A byte source of the scan: an ArrayBuffer or a stream that has delivered
\* all its bytes, its size, the offsets at which the bytes 50 4b 05 06 stand,
\* and the commentLength of the record at each of them: the bytes left after it.
ScanSources ==
    UNION {{[kind |-> k, size |-> n, sigs |-> s] :
               k \in {"buffer", "stream"},
               s \in SUBSET {o \in 0..1 : o + sizeof_Header <= n}} :
           n \in ScanSizes}

\* An index of subarray(begin, end): a negative one counts from the end, and
\* the result is clamped to the array.
RelativeIndex(n, i) == IF i < 0 THEN Max(n + i, 0) ELSE Min(i, n)

\* source.get(offset, length): the bytes [begin, end) of the source.
\*   ArrayBuffer: new Uint8Array(input, offset, length) throws a RangeError
\*   outside the buffer; stream: data.subarray(offset, offset + length), and
\*   a get that ends after size stays pending.
SourceGet(source, offset, length) ==
    IF source.kind = "buffer"
    THEN IF offset < 0 \/ offset + length > source.size
         THEN [err |-> "RangeError", begin |-> 0, end |-> 0]
         ELSE [err |-> "", begin |-> offset, end |-> offset + length]
    ELSE IF offset + length > source.size
         THEN [err |-> "pending", begin |-> 0, end |-> 0]
         ELSE [err |-> "", begin |-> RelativeIndex(source.size, offset),
               end |-> RelativeIndex(source.size, offset + length)]

\* sig === 0x6054b50 for the first four bytes of the view (a byte the view
\* lacks reads as undefined, and counts as 0).
HasSignature(source, view) ==
    view.end - view.begin >= 4 /\ view.begin \in source.sigs

\* header.commentLength of the record found at the offset.
CommentLength(source, offset) == source.size - sizeof_Header - offset

NoScanGet == [issued |-> FALSE, probe |-> FALSE, offset |-> 0, length |-> 0]

ScanGet(probe, offset, length) ==
    [issued |-> TRUE, probe |-> probe, offset |-> offset, length |-> length]

\* computeEOCD(source) called: offset is the loop variable.
Scanning(source, run, first) ==
    [called |-> TRUE, state |-> "scan", offset |-> source.size - sizeof_Header,
     get |-> NoScanGet, header |-> -1, run |-> run, first |-> first]

ScanStart ==
    /\ ret = NotCalled
    /\ ret' = Scanning(arg, 1, -1)
    /\ UNCHANGED <<zipVars, streamVars, isoVars, arg>>

\* One turn of the loop: the test of the loop, the get and the comparison.
ScanProbe ==
    /\ ret # NotCalled
    /\ ret.state = "scan"
    /\ IF ~(ret.offset > arg.size - EOCD_WINDOW)
       THEN ret' = [ret EXCEPT !.state = "EINVAL"]
       ELSE LET view == SourceGet(arg, ret.offset, sizeof_Header)
                issued == [ret EXCEPT !.get = ScanGet(TRUE, ret.offset, sizeof_Header)]
            IN  IF view.err # ""
                THEN ret' = [issued EXCEPT !.state = view.err]
                ELSE IF HasSignature(arg, view)
                THEN ret' = [issued EXCEPT !.state = "comment", !.header = ret.offset]
                ELSE ret' = [issued EXCEPT !.offset = ret.offset - 1]
    /\ UNCHANGED <<zipVars, streamVars, isoVars, arg>>

\* header.comment = await safeDecode(source, true, offset + Header.size,
\* header.commentLength): the bytes of the comment are fetched.
ScanComment ==
    /\ ret # NotCalled
    /\ ret.state = "comment"
    /\ LET offset == ret.header + sizeof_Header
           length == CommentLength(arg, ret.header)
           view == SourceGet(arg, offset, length)
       IN  ret' = [ret EXCEPT !.get = ScanGet(FALSE, offset, length),
                              !.state = IF view.err # "" THEN view.err ELSE "found"]
    /\ UNCHANGED <<zipVars, streamVars, isoVars, arg>>

\* computeEOCD called again on the same source.
ScanAgain ==
    /\ ret # NotCalled
    /\ ret.state = "found"
    /\ ret.run = 1
    /\ ret' = Scanning(arg, 2, ret.header)
    /\ UNCHANGED <<zipVars, streamVars, isoVars, arg>>

ScanInit ==
    /\ NoZip
    /\ NoStream
    /\ NoIso
    /\ \E source \in ScanSources : Calling(source)

ScanNext == ScanStart \/ ScanProbe \/ ScanComment \/ ScanAgain

ScanSpec == ScanInit /\ [][ScanNext]_vars

\* C17: every probe of the scan is at an offset between max(0, size - 65535)
\* and size - 22, every get lies inside the source, the record found is the
\* one at the greatest offset that carries the signature, and a second scan
\* of the same source finds the same record.
C17_ScanBounds ==
    ret # NotCalled =>
        /\ ret.get.issued =>
              /\ 0 <= ret.get.offset
              /\ ret.get.offset + ret.get.length <= arg.size
              /\ ret.get.probe =>
                    /\ Max(0, arg.size - EOCD_WINDOW) <= ret.get.offset
                    /\ ret.get.offset <= arg.size - sizeof_Header
        /\ ret.state \in {"comment", "found"} =>
              /\ ret.header \in arg.sigs
              /\ \A o \in arg.sigs : o <= ret.header
        /\ (ret.state = "found" /\ ret.run = 2) => ret.header = ret.first

----------------------------------------------------------------------------
(* Properties of the ZIP file system *)

MountDone == \E c \in Callers : pc[c] = "done"

\* What stat reports for a path: a directory.
StatsAsDirectory(path) ==
    /\ statSync(path).err = ""
    /\ HasFlag(statSync(path).inode.mode, S_IFDIR)

\* The names directly below a directory, taken from the keys of the file map.
ChildNames(path) ==
    {files[i].k[Len(path) + 1] :
        i \in {j \in 1..Len(files) :
                  IsPrefix(path, files[j].k) /\ Len(files[j].k) > Len(path)}}

NoDuplicates(s) == \A i, j \in 1..Len(s) : s[i] = s[j] => i = j

\* The bytes of the archive that a read of [offset, end) of a file must copy.
ExpectedBuffer(file, offset, end) ==
    [i \in 1..MaxLen |->
        IF offset + i <= Min(end, Len(data.cd[file].stored))
        THEN data.cd[file].stored[offset + i] ELSE 0]

\* C2: after a ZIP mount, for every key p of the file map and every strict
\* ancestor directory d of p up to "/", d is a key of the directory index and
\* the component of p directly below d is in the set of d.
C2_AncestorsIndexed ==
    MountDone =>
        \A i \in 1..Len(files) : \A k \in 0..(Len(files[i].k) - 1) :
            LET p == files[i].k
                d == SubSeq(p, 1, k)
            IN  /\ MapHas(directories, d)
                /\ p[k + 1] \in Range(MapGet(directories, d))

\* A mounted archive whose only entry lies three levels deep: no directory
\* above it has an entry of its own.
C2_Witness ==
    /\ MountDone
    /\ Len(data.cd) = 1
    /\ Len(files) = 1
    /\ Len(files[1].k) >= 3

\* C3: after a successful ZIP mount "/" is a key of the directory index, stat
\* of "/" returns a directory inode and readdir of "/" succeeds.
C3_RootIndexed ==
    MountDone =>
        /\ MapHas(directories, <<>>)
        /\ StatsAsDirectory(<<>>)
        /\ readdirSync(<<>>).err = ""

\* The file system holds the whole archive: the end-of-central-directory
\* record, every central-directory entry, the directory index built from them.
Populated ==
    /\ data.eocd.found
    /\ eocd = data.eocd
    /\ \A i \in 1..Len(data.cd) : MapHas(files, FileKey(data.cd[i]))
    /\ directories = BuildDirectories(files, <<>>)

\* C4: whenever a call of ready() has resolved, the file system is populated,
\* whatever the sequence or overlap of ready() calls.
C4_ResolvedMeansPopulated ==
    \A c \in Callers : Resolved(c) => Populated

\* C7: on a lazily mounted file system, readSync of a file whose contents are
\* not loaded starts a load and fails with EAGAIN leaving the buffer alone;
\* read of such a file waits for its load and, the entry being one that can
\* be decoded, then copies contents[offset:end];
\* loaded contents stay, and readSync of a loaded file copies the same bytes.
C7_LazyRead ==
    [][lazy =>
        /\ \A path \in QueryPaths, r \in ReadRanges :
              (ReadSync(path, r[1], r[2]) /\ ReadCheck(path) = "") =>
                  LET file == MapGet(files, path)
                  IN  IF contents[file].loaded
                      THEN /\ last'.err = ""
                           /\ last'.buffer = ExpectedBuffer(file, r[1], r[2])
                           /\ loading' = loading
                      ELSE /\ last'.err = "EAGAIN"
                           /\ last'.buffer = EmptyBuffer
                           /\ loading'[file] = loading[file] + 1
        /\ \A path \in QueryPaths, r \in ReadRanges :
              (Read(path, r[1], r[2]) /\ ReadCheck(path) = "") =>
                  LET file == MapGet(files, path)
                  IN  IF contents[file].loaded
                      THEN /\ last'.err = ""
                           /\ last'.buffer = ExpectedBuffer(file, r[1], r[2])
                      ELSE rd'.active /\ last' = last
        /\ (ReadResume /\ loadContents(data, MapGet(files, rd.path)).err = "") =>
              LET file == MapGet(files, rd.path)
              IN  /\ contents'[file].loaded
                  /\ last'.op = "read" /\ last'.err = ""
                  /\ last'.buffer = ExpectedBuffer(file, rd.offset, rd.end)
        /\ \A file \in DOMAIN contents :
              contents[file].loaded => contents'[file] = contents[file]
    ]_vars

\* A lazy mount after which readSync has copied bytes of a file: its contents
\* were loaded by an earlier read.
C7_Witness ==
    /\ lazy
    /\ last.op = "readSync"
    /\ last.err = ""
    /\ last.buffer # EmptyBuffer

\* C8: when lazy is false, every entry of the file map has its contents
\* loaded, and no readSync fails with EAGAIN, whatever the byte source.
C8_EagerLoaded ==
    ~lazy =>
        /\ \A i \in 1..Len(files) : contents[files[i].v].loaded
        /\ ~(last.op = "readSync" /\ last.err = "EAGAIN")

\* A stream-backed eager mount on which readSync has copied bytes of a file.
C8_Witness ==
    /\ ~lazy
    /\ data.kind = "stream"
    /\ InUse
    /\ last.op = "readSync"
    /\ last.err = ""
    /\ last.buffer # EmptyBuffer

\* C9: read and readSync fail with EISDIR on every path stat reports as a
\* directory, and with ENOENT on every path in neither map.
C9_ReadFailsOnDirectories ==
    [][\A path \in QueryPaths, r \in ReadRanges :
          (ReadSync(path, r[1], r[2]) \/ Read(path, r[1], r[2])) =>
              /\ StatsAsDirectory(path) =>
                    last'.op \in {"read", "readSync"} /\ last'.path = path
                        /\ last'.err = "EISDIR"
              /\ (~MapHas(directories, path) /\ ~MapHas(files, path)) =>
                    last'.err = "ENOENT"
    ]_vars

\* C10: readdir fails with ENOENT on a path in neither map, with ENOTDIR on a
\* regular file entry, with ENODATA on a directory entry absent from the
\* directory index, and otherwise returns the names directly below the
\* directory, each once; readdir of "/" returns the names directly below "/".
C10_Readdir ==
    [][\A path \in QueryPaths :
          ReaddirSync(path) =>
              /\ IF ~MapHas(directories, path) /\ ~MapHas(files, path)
                 THEN last'.err = "ENOENT"
                 ELSE IF ~StatsAsDirectory(path)
                 THEN last'.err = "ENOTDIR"
                 ELSE IF ~MapHas(directories, path)
                 THEN last'.err = "ENODATA"
                 ELSE /\ last'.err = ""
                      /\ NoDuplicates(last'.names)
                      /\ Range(last'.names) = ChildNames(path)
              /\ (path = <<>> /\ MountDone) =>
                    /\ last'.err = ""
                    /\ Range(last'.names) = ChildNames(<<>>)
    ]_vars

\* The ready() call has left the search for the end-of-central-directory
\* record behind it.
PastEOCD(c) == pc[c] \notin {"absent", "idle", "super", "eocd", "skipped"}

\* C18: when the archive holds no end-of-central-directory signature, a
\* ready() call that looks for it fails with EIO, and no file or directory is
\* indexed.
C18_LostEOCD ==
    \A c \in Callers :
        (~data.eocd.found /\ PastEOCD(c)) =>
            /\ pc[c] = "EIO"
            /\ files = <<>>
            /\ directories = <<>>

\* C19: a ready() call on a spanned archive or a ZIP64 archive fails with
\* EINVAL, and the file map holds no entry when it does.
C19_SpannedOrZip64 ==
    \A c \in Callers :
        (/\ data.eocd.found
         /\ data.eocd.disk # data.eocd.entriesDisk \/ data.eocd.offset = ZIP64_OFFSET
         /\ PastEOCD(c)) =>
            /\ pc[c] = "EINVAL"
            /\ files = <<>>

\* The mount of a spanned archive that holds an entry has failed.
C19_Witness ==
    /\ data.eocd.found
    /\ data.eocd.disk # data.eocd.entriesDisk
    /\ Len(data.cd) > 0
    /\ pc[1] = "EINVAL"
    /\ files = <<>>

\* C20: a ready() call that reaches a central-directory entry without the
\* signature 0x02014b50 fails with EINVAL, loading the contents of an entry
\* whose local file header lacks the signature 0x04034b50 fails with EINVAL,
\* and the file map holds no such entry with contents.
C20_SignaturesChecked ==
    /\ \A c \in Callers :
           pc[c] = "done" => \A i \in 1..Len(data.cd) : FileEntry_check(data.cd[i])
    /\ \A i \in 1..Len(files) : FileEntry_check(data.cd[files[i].v])
    /\ \A i \in 1..Len(data.cd) :
           contents[i].loaded => LocalFileHeader_check(data.cd[i])

\* The entries of the archive whose method has no decompressor.
Undecodable == {i \in 1..Len(data.cd) : data.cd[i].compressionMethod \notin Registered}

\* C21: the contents of an entry whose compression method has no decompressor
\* are never set; without lazy no ready() call on an archive with such an
\* entry completes the walk, and a call that tries to load it fails with
\* EINVAL; with lazy the ready() call does not fail for it, and the failure
\* is the EINVAL, naming the method, of an async read of that file, and of
\* no other read, whose buffer stays as it was.
C21_UnknownMethod ==
    /\ \A i \in Undecodable : ~contents[i].loaded
    /\ (~lazy /\ Undecodable # {}) => \A c \in Callers : pc[c] # "done"
    /\ (lazy /\ data.eocd.found /\ ~Spanned(data.eocd)
             /\ data.eocd.offset # ZIP64_OFFSET) =>
           \A c \in Callers : pc[c] # "EINVAL"
    /\ (last.op = "read" /\ last.err \notin {"ENOENT", "EISDIR"}
             /\ MapHas(files, last.path)) =>
           LET file == MapGet(files, last.path)
           IN  IF file \in Undecodable
               THEN /\ last.err = "EINVAL"
                    /\ last.mname = <<data.cd[file].compressionMethod>>
                    /\ last.buffer = EmptyBuffer
               ELSE last.err = "" /\ last.mname = <<>>
    /\ last.op # "read" => last.err # "EINVAL"

\* Mounted with lazy set, the archive has been asked for the file with the
\* unknown method by read(), and for the other file.
C21_Witness ==
    /\ lazy
    /\ pc[1] = "done"
    /\ Len(data.cd) = 2
    /\ last.op = "read"
    /\ last.path = <<"b">>
    /\ last.err = "EINVAL"
    /\ last.mname = <<UnknownMethod>>
    /\ contents[1].loaded

\* A read or readSync has returned or thrown in this step.
ReadEnds == last' # last /\ last'.op \in {"read", "readSync"}

\* C30: a read or readSync that fails, whatever the error, leaves the
\* caller's buffer as it was, and no read, failed or not, changes the file
\* map or the directory index.
C30_ReadFrame ==
    [][ReadEnds =>
          /\ last'.err # "" => last'.buffer = EmptyBuffer
          /\ files' = files
          /\ directories' = directories]_vars

\* A readSync of a file of the file map whose contents are not loaded has
\* failed with EAGAIN, and the buffer is as the caller passed it.
C30_Witness ==
    /\ last.op = "readSync"
    /\ last.err = "EAGAIN"
    /\ last.buffer = EmptyBuffer
    /\ MapHas(files, last.path)
    /\ directories # <<>>

----------------------------------------------------------------------------
(* Properties of the stream byte source *)

InRange(g) == gets[g].offset + gets[g].length <= size

\* The bytes the stream delivers for the range of a get.
Delivered(g) ==
    [i \in 1..gets[g].length |-> gets[g].offset + i]

\* C5: on a source made by fromStream whose stream delivers size bytes in
\* total, every get(offset, len) with offset + len <= size that has been
\* issued, before or after its bytes arrived, eventually returns, and the view
\* it returns holds the bytes the stream delivered for its range.
C5_GetEventuallyReturns ==
    \A g \in GetIds :
        (gets[g].state # "idle" /\ InRange(g))
            ~> (gets[g].state = "returned" /\ gets[g].view = Delivered(g))

\* A get that reached the end of the source, had to wait, and has returned
\* the delivered bytes.
C5_Witness ==
    \E g \in GetIds :
        /\ gets[g].state = "returned"
        /\ gets[g].waited
        /\ gets[g].length > 0
        /\ gets[g].offset + gets[g].length = size
        /\ gets[g].view = Delivered(g)

\* C6: no get(offset, len) is resolved while bytesRead < offset + len, and
\* after each chunk every pending get with offset + len <= bytesRead has been
\* resolved and removed from the pending set, whatever the order of the gets.
C6_ResolvedWhenCovered ==
    /\ \A g \in GetIds :
          gets[g].state \in {"woken", "returned"} =>
              bytesRead >= gets[g].offset + gets[g].length
    /\ \A i \in 1..Len(pending) :
          bytesRead < pending[i].offset + pending[i].length
    /\ \A g \in GetIds :
          gets[g].state = "pending" <=> \E i \in 1..Len(pending) : pending[i].id = g
    /\ \A i, j \in 1..Len(pending) : pending[i].id = pending[j].id => i = j

\* Two gets waited at the same time; a chunk resolved the one issued later
\* and left the one issued first pending.
C6_Witness ==
    /\ Len(pending) = 1
    /\ pending[1].id = 1
    /\ gets[2].state = "woken"
    /\ gets[2].waited
    /\ gets[2].offset > 0

\* C11: get(offset, len) with offset + len > size on a built-in byte source
\* fails with EINVAL: it neither returns a shorter view nor stays pending.
C11_OutOfRangeGetFails ==
    \A g \in GetIds :
        (gets[g].state # "idle" /\ ~InRange(g)) => gets[g].state = "EINVAL"

----------------------------------------------------------------------------
(* Properties of the ISO file system *)

\* The same components in another case.
Recasings(path) ==
    {q \in IsoPaths :
        /\ Len(q) = Len(path)
        /\ \A i \in 1..Len(path) : toLowerCase(q[i]) = toLowerCase(path[i])}

\* What the last call returns when the caller writes the path as q.
Recased(q) ==
    LET path == foldPath(caseFold, q)
    IN  CASE isoLast.op = "stat" -> isoStatSync(path)
          [] isoLast.op = "readdir" -> isoReaddirSync(path)
          [] isoLast.op = "read" -> isoReadSync(path, isoLast.offset, isoLast.end)
          [] OTHER -> isoLast

OnTarget(target) ==
    [(CASE isoLast.op = "stat" -> isoStatSync(target)
        [] isoLast.op = "readdir" -> isoReaddirSync(target)
        [] isoLast.op = "read" -> isoReadSync(target, isoLast.offset, isoLast.end)
        [] OTHER -> isoLast) EXCEPT !.path = isoLast.path]

\* C28: stat, readdir and read of a path whose record is a symbolic link
\* answer as they do on the path the link resolves to, and fail with ENOENT
\* when no record is there.
C28_LinkFollowed ==
    LET record == _getDirectoryRecord(isoLast.path)
        target == resolve(isoLast.path, image[record.at].symlinkPath)
        targetRecord == _getDirectoryRecord(target)
    IN  (isoLast.op # "none" /\ record.found /\ image[record.at].kind = "symlink") =>
            IF ~targetRecord.found THEN isoLast.err = "ENOENT"
            ELSE image[targetRecord.at].kind # "symlink" => isoLast = OnTarget(target)

----------------------------------------------------------------------------
(* Properties of both file systems *)

\* ZIP: a loaded non-directory entry reads as many bytes as stat reports, and
\* its parent directory lists it.
C1_ZipPart ==
    MountDone =>
        \A i \in 1..Len(files) :
            LET p == files[i].k
                st == statSync(p)
                dir == readdirSync(parse(p).dir)
            IN  (~StatsAsDirectory(p) /\ contents[files[i].v].loaded) =>
                    /\ st.err = ""
                    /\ ReadCheck(p) = ""
                    /\ Len(SubArray(contents[files[i].v].bytes, 0,
                                    Len(contents[files[i].v].bytes)))
                           = st.inode.size
                    /\ dir.err = ""
                    /\ parse(p).base \in Range(dir.names)

\* ISO: when a path that stat reports, and not as a directory, has been read
\* in full, the read yielded as many bytes as stat reports, and the parent
\* directory lists the path.
C1_IsoPart ==
    LET p == isoLast.path
        st == isoStatSync(p)
        dir == isoReaddirSync(parse(p).dir)
    IN  (/\ isoLast.op = "read"
         /\ isoLast.offset = 0
         /\ isoLast.end = SECTOR
         /\ st.err = ""
         /\ st.defined
         /\ ~HasFlag(st.inode.mode, S_IFDIR)) =>
            /\ isoLast.err = ""
            /\ Len(isoLast.bytes) = st.inode.size
            /\ dir.err = ""
            /\ parse(p).base \in Range(dir.names)

\* C1: for every existing non-directory path p of a mounted archive, ZIP or
\* ISO, a Rock Ridge symbolic link included, a full read of p yields exactly
\* stat(p).size bytes, and readdir(dirname(p)) contains basename(p).
C1_StatSizeIsReadLength == C1_ZipPart /\ C1_IsoPart

====
